---- MODULE Spec2Model ----
(***************************************************************************)
(* Model of the drill renderer of drill_system/renderer.py: the viewport   *)
(* computation (FieldRenderer._calculate_bounds), the PositionTracker, the *)
(* arrow geometry of ActionRenderer and the render() driver.               *)
(*                                                                         *)
(* Coordinates are Python floats in the source.  The model keeps them as   *)
(* integers counted in hundredths of a field unit (the field is            *)
(* 0..10000 x 0..10000), so that sums, differences, halves, min and max    *)
(* are exact for documents whose coordinates and gate widths are whole     *)
(* field units.  Unit vectors (dx / dist) are computed in fixed point with *)
(* an integer square root, with an error of at most one hundredth per      *)
(* coordinate.                                                             *)
(***************************************************************************)
EXTENDS Integers, Sequences, FiniteSets, TLC

(* ---------------------------------------------------------------------- *)
(* Bounds of the model                                                     *)
(* ---------------------------------------------------------------------- *)

\* longest action list of the chained-action documents
MaxActions == 3

(* ---------------------------------------------------------------------- *)
(* Program constants (hundredths of a field unit)                          *)
(* ---------------------------------------------------------------------- *)

PLAYER_OFFSET == 250
ACTION_GAP == 80
ARROW_HEAD_LENGTH == 100
BALL_OFFSET == 180
padding == 800
min_size == 3000

(* ---------------------------------------------------------------------- *)
(* Values                                                                  *)
(* ---------------------------------------------------------------------- *)

\* Position(x, y) of schema.py, x and y given in whole field units
Position(x, y) == [x |-> x * 100, y |-> y * 100]

\* Python's None for an Optional[Tuple[float, float]]
NoPosition == [x |-> -1, y |-> -1]

\* Python's None for an Optional[str]; player ids match ^[A-Z]+[0-9]*$
None == "none"

Player(id, role, pos) == [id |-> id, role |-> role, position |-> pos]

ConeGate(id, center, width, orientation) ==
    [id |-> id, center |-> center, width |-> width * 100, orientation |-> orientation]

PassAction(f, t) ==
    [type |-> "PASS", from_player |-> f, to_player |-> t, player |-> None,
     to_position |-> NoPosition, through_gate |-> None]

RunAction(p, pos) ==
    [type |-> "RUN", from_player |-> None, to_player |-> None, player |-> p,
     to_position |-> pos, through_gate |-> None]

\* a Dribble with through_gate left at its default
DribbleAction(p, pos) ==
    [type |-> "DRIBBLE", from_player |-> None, to_player |-> None, player |-> p,
     to_position |-> pos, through_gate |-> None]

\* a Dribble that names a cone gate
DribbleThroughGate(p, pos, g) ==
    [type |-> "DRIBBLE", from_player |-> None, to_player |-> None, player |-> p,
     to_position |-> pos, through_gate |-> g]

ShotAction(p) ==
    [type |-> "SHOT", from_player |-> None, to_player |-> None, player |-> p,
     to_position |-> NoPosition, through_gate |-> None]

FieldConfig(dir, goals) == [attacking_direction |-> dir, goals |-> goals]

Drill(field, players, cones, cone_gates, balls, mannequins, actions) ==
    [field |-> field, players |-> players, cones |-> cones,
     cone_gates |-> cone_gates, balls |-> balls, mannequins |-> mannequins,
     actions |-> actions]

(* ---------------------------------------------------------------------- *)
(* Arithmetic helpers                                                      *)
(* ---------------------------------------------------------------------- *)

Min(S) == CHOOSE m \in S : \A n \in S : m <= n
Max(S) == CHOOSE m \in S : \A n \in S : m >= n

RECURSIVE IsqrtIter(_, _, _)
IsqrtIter(n, lo, hi) ==
    IF lo >= hi THEN lo
    ELSE LET mid == (lo + hi + 1) \div 2
         IN  IF mid * mid <= n THEN IsqrtIter(n, mid, hi)
             ELSE IsqrtIter(n, lo, mid - 1)

\* np.sqrt on a sum of squares, rounded down to a hundredth
Isqrt(n) == IsqrtIter(n, 0, 14143)

\* dx**2 + dy**2
Dist2(dx, dy) == dx * dx + dy * dy

\* a / b rounded to the nearest integer, b > 0
RoundDiv(a, b) == (2 * a + b) \div (2 * b)

(* ---------------------------------------------------------------------- *)
(* Documents                                                               *)
(* ---------------------------------------------------------------------- *)

SeqsUpTo(S, n) == UNION {[1..k -> S] : k \in 0..n}

\* the players of fixtures.CHAINED_ACTIONS_DEMO
DemoPlayers ==
    << Player("A1", "ATTACKER", Position(30, 50)),
       Player("A2", "ATTACKER", Position(70, 50)) >>

\* the action list of fixtures.CHAINED_ACTIONS_DEMO
DemoActions ==
    << DribbleAction("A1", Position(35, 70)),
       RunAction("A2", Position(55, 88)),
       PassAction("A1", "A2"),
       ShotAction("A2") >>

CHAINED_ACTIONS_DEMO ==
    Drill(FieldConfig("NORTH", 1), DemoPlayers, << >>, << >>,
          << Position(30, 50) >>, << >>, DemoActions)

\* actions of the chained-action documents: two players, two destinations
ChainTargets == {Position(35, 70), Position(55, 88)}

ChainActions ==
    {PassAction("A1", "A2"), PassAction("A2", "A1"), PassAction("A1", "A1")}
    \cup {RunAction(p, q) : p \in {"A1", "A2"}, q \in ChainTargets}
    \cup {DribbleAction("A1", q) : q \in ChainTargets}
    \cup {ShotAction(p) : p \in {"A1", "A2"}}

\* documents that exercise action chaining: the demo's players and ball with
\* every action list of up to MaxActions actions
ChainDrills ==
    {Drill(FieldConfig("NORTH", 1), DemoPlayers, << >>, << >>,
           << Position(30, 50) >>, << >>, s) : s \in SeqsUpTo(ChainActions, MaxActions)}

\* documents that exercise the initial ball holder: one or two players at
\* varied places, no ball or one ball, at most one action
HolderSpots == {Position(30, 50), Position(70, 50), Position(50, 100)}

HolderPlayers ==
    {<< Player("A1", "ATTACKER", p) >> : p \in HolderSpots}
    \cup {<< Player("A1", "ATTACKER", p), Player("A2", "DEFENDER", q) >> :
            p \in HolderSpots, q \in HolderSpots}

HolderBalls ==
    {<< >>, << Position(30, 50) >>, << Position(50, 50) >>, << Position(60, 50) >>}

HolderActions(players) ==
    LET ids == {players[k].id : k \in DOMAIN players}
    IN  {<< >>}
        \cup {<< PassAction(f, t) >> : f \in ids, t \in ids}
        \cup {<< RunAction(p, Position(35, 70)) >> : p \in ids}
        \cup {<< DribbleAction(p, Position(35, 70)) >> : p \in ids}
        \cup {<< ShotAction(p) >> : p \in ids}

HolderDrills ==
    UNION {{Drill(FieldConfig("NORTH", 1), ps, << >>, << >>, b, << >>, a) :
              b \in HolderBalls, a \in HolderActions(ps)} : ps \in HolderPlayers}

\* documents that exercise the viewport: every field configuration, one
\* player anywhere on the field, at most one further entity, at most one action
ViewFields == {FieldConfig(d, g) : d \in {"NORTH", "SOUTH"}, g \in {0, 1, 2}}

ViewSpots ==
    {Position(0, 0), Position(5, 50), Position(50, 50), Position(50, 75),
     Position(50, 95), Position(100, 100)}

ViewPlayers ==
    {<< Player("A1", r, p) >> : r \in {"ATTACKER", "GOALKEEPER"}, p \in ViewSpots}

ExtraSpots == {Position(50, 20), Position(90, 60)}

ViewGates ==
    {<< ConeGate("G1", c, w, o) >> :
        c \in ExtraSpots, w \in {10, 30}, o \in {"HORIZONTAL", "VERTICAL"}}

\* <<cones, cone_gates, balls, mannequins>>
ViewExtras ==
    {<< << >>, << >>, << >>, << >> >>}
    \cup {<< << p >>, << >>, << >>, << >> >> : p \in ExtraSpots}
    \cup {<< << >>, g, << >>, << >> >> : g \in ViewGates}
    \cup {<< << >>, << >>, << p >>, << >> >> : p \in ExtraSpots}
    \cup {<< << >>, << >>, << >>, << p >> >> : p \in ExtraSpots}

ViewActions ==
    {<< >>, << PassAction("A1", "A1") >>, << RunAction("A1", Position(20, 40)) >>,
     << DribbleAction("A1", Position(80, 60)) >>, << ShotAction("A1") >>}

ViewDrills ==
    {Drill(f, ps, e[1], e[2], e[3], e[4], a) :
        f \in ViewFields, ps \in ViewPlayers, e \in ViewExtras, a \in ViewActions}

Drills == {CHAINED_ACTIONS_DEMO} \cup ChainDrills \cup HolderDrills \cup ViewDrills

(* ---------------------------------------------------------------------- *)
(* FieldRenderer._calculate_bounds                                         *)
(* ---------------------------------------------------------------------- *)

\* self.attacking_goal_y of FieldRenderer, goal_y of render()
attacking_goal_y(d) == IF d.field.attacking_direction = "NORTH" THEN 10000 ELSE 0

\* x_coords without the action endpoints: only the entities widen the box
x_coords_entities_only(d) ==
    {d.players[k].position.x : k \in DOMAIN d.players}
    \cup {d.cones[k].x : k \in DOMAIN d.cones}
    \cup {d.cone_gates[k].center.x - d.cone_gates[k].width \div 2 : k \in DOMAIN d.cone_gates}
    \cup {d.cone_gates[k].center.x + d.cone_gates[k].width \div 2 : k \in DOMAIN d.cone_gates}
    \cup {d.balls[k].x : k \in DOMAIN d.balls}
    \cup {d.mannequins[k].x : k \in DOMAIN d.mannequins}

\* the x coordinates collected from the entities and the actions
x_coords(d) ==
    {d.players[k].position.x : k \in DOMAIN d.players}
    \cup {d.cones[k].x : k \in DOMAIN d.cones}
    \cup {d.cone_gates[k].center.x - d.cone_gates[k].width \div 2 : k \in DOMAIN d.cone_gates}
    \cup {d.cone_gates[k].center.x + d.cone_gates[k].width \div 2 : k \in DOMAIN d.cone_gates}
    \cup {d.balls[k].x : k \in DOMAIN d.balls}
    \cup {d.mannequins[k].x : k \in DOMAIN d.mannequins}
    \cup {d.actions[k].to_position.x :
            k \in {j \in DOMAIN d.actions : d.actions[j].type \in {"RUN", "DRIBBLE"}}}
    \cup {5000 : k \in {j \in DOMAIN d.actions : d.actions[j].type = "SHOT"}}

\* the y coordinates collected from the entities and the actions
y_coords(d) ==
    {d.players[k].position.y : k \in DOMAIN d.players}
    \cup {d.cones[k].y : k \in DOMAIN d.cones}
    \cup {d.cone_gates[k].center.y : k \in DOMAIN d.cone_gates}
    \cup {d.balls[k].y : k \in DOMAIN d.balls}
    \cup {d.mannequins[k].y : k \in DOMAIN d.mannequins}
    \cup {d.actions[k].to_position.y :
            k \in {j \in DOMAIN d.actions : d.actions[j].type \in {"RUN", "DRIBBLE"}}}
    \cup {attacking_goal_y(d) : k \in {j \in DOMAIN d.actions : d.actions[j].type = "SHOT"}}

\* goal_edges that knows the NORTH goal only
goal_edges_north_only(d, cy_min, cy_max, y0, y1) ==
    IF d.field.goals > 0 /\ d.field.attacking_direction = "NORTH" /\ cy_max > 7000
    THEN [y_min |-> IF y0 > 7800 THEN 7800 ELSE y0, y_max |-> 10000]
    ELSE [y_min |-> y0, y_max |-> y1]

\* "Handle goals": the y edges after the attacking-goal rule (goals > 0)
goal_edges(d, cy_min, cy_max, y0, y1) ==
    IF d.field.goals > 0
    THEN IF d.field.attacking_direction = "NORTH"
         THEN IF cy_max > 7000
              THEN [y_min |-> IF y0 > 7800 THEN 7800 ELSE y0, y_max |-> 10000]
              ELSE [y_min |-> y0, y_max |-> y1]
         ELSE IF cy_min < 3000
              THEN [y_min |-> 0, y_max |-> IF y1 < 2200 THEN 2200 ELSE y1]
              ELSE [y_min |-> y0, y_max |-> y1]
    ELSE [y_min |-> y0, y_max |-> y1]

\* second_goal_edges that leaves the edges as the attacking-goal rule set them
second_goal_edges_skipped(d, cy_min, cy_max, e) == e

\* "Handle second goal": the y edges after the other-goal and goalkeeper rules
second_goal_edges(d, cy_min, cy_max, e) ==
    IF d.field.goals > 1
    THEN LET other_goal_y == IF attacking_goal_y(d) = 10000 THEN 0 ELSE 10000
             o == IF other_goal_y = 0 /\ cy_min < 3000
                  THEN [y_min |-> 0, y_max |-> e.y_max]
                  ELSE IF other_goal_y = 10000 /\ cy_max > 7000
                       THEN [y_min |-> e.y_min, y_max |-> 10000]
                       ELSE e
             has_gk_top == \E k \in DOMAIN d.players :
                              d.players[k].role = "GOALKEEPER" /\ d.players[k].position.y > 9000
             has_gk_bottom == \E k \in DOMAIN d.players :
                              d.players[k].role = "GOALKEEPER" /\ d.players[k].position.y < 1000
         IN  [y_min |-> IF has_gk_bottom THEN 0 ELSE o.y_min,
              y_max |-> IF has_gk_top THEN 10000 ELSE o.y_max]
    ELSE e

\* min_view without the minimum: the padded box is kept as it is
min_view_unchanged(lo, hi) == [lo |-> lo, hi |-> hi]

\* "Ensure minimum view size": one axis, recentred and clamped to the field
min_view(lo, hi) ==
    IF hi - lo < min_size
    THEN LET center == (lo + hi) \div 2
         IN  [lo |-> Max({0, center - min_size \div 2}),
              hi |-> Min({10000, center + min_size \div 2})]
    ELSE [lo |-> lo, hi |-> hi]

calculate_bounds(d) ==
    LET xs == IF x_coords(d) = {} THEN {2500, 7500} ELSE x_coords(d)
        ys == IF y_coords(d) = {} THEN {2500, 7500} ELSE y_coords(d)
        cx_min == Min(xs)
        cx_max == Max(xs)
        cy_min == Min(ys)
        cy_max == Max(ys)
        x0 == Max({0, cx_min - padding})
        x1 == Min({10000, cx_max + padding})
        y0 == Max({0, cy_min - padding})
        y1 == Min({10000, cy_max + padding})
        e1 == goal_edges(d, cy_min, cy_max, y0, y1)
        e2 == second_goal_edges(d, cy_min, cy_max, e1)
        vx == min_view(x0, x1)
        vy == min_view(e2.y_min, e2.y_max)
    IN  [content_x_min |-> cx_min, content_x_max |-> cx_max,
         content_y_min |-> cy_min, content_y_max |-> cy_max,
         x_min |-> vx.lo, x_max |-> vx.hi, y_min |-> vy.lo, y_max |-> vy.hi]

(* ---------------------------------------------------------------------- *)
(* ActionRenderer                                                          *)
(* ---------------------------------------------------------------------- *)

\* the record of one draw_* call: its arguments, the offsets it chose (0 when
\* it chose none), the trimmed segment, the length of that segment and
\* whether a line and an arrowhead were emitted
Call(type, x1, y1, x2, y2, sp, ep, so, eo, sx, sy, ex, ey, dist, drawn) ==
    [type |-> type, x1 |-> x1, y1 |-> y1, x2 |-> x2, y2 |-> y2,
     start_is_player |-> sp, end_is_player |-> ep,
     start_offset |-> so, end_offset |-> eo,
     start_x |-> sx, start_y |-> sy, end_x |-> ex, end_y |-> ey,
     dist |-> dist, drawn |-> drawn]

\* get_offset_points that picks the end offset by start_is_player as well
get_offset_points_one_flag(x1, y1, x2, y2, start_is_player, end_is_player) ==
    LET dx == x2 - x1
        dy == y2 - y1
        dist == Isqrt(Dist2(dx, dy))
    IN  IF dist = 0
        THEN [start_x |-> x1, start_y |-> y1, end_x |-> x2, end_y |-> y2,
              start_offset |-> 0, end_offset |-> 0]
        ELSE LET start_offset == IF start_is_player THEN PLAYER_OFFSET ELSE ACTION_GAP
                 end_offset == IF start_is_player THEN PLAYER_OFFSET ELSE ACTION_GAP
             IN  [start_x |-> x1 + RoundDiv(dx * start_offset, dist),
                  start_y |-> y1 + RoundDiv(dy * start_offset, dist),
                  end_x |-> x2 - RoundDiv(dx * end_offset, dist),
                  end_y |-> y2 - RoundDiv(dy * end_offset, dist),
                  start_offset |-> start_offset, end_offset |-> end_offset]

get_offset_points(x1, y1, x2, y2, start_is_player, end_is_player) ==
    LET dx == x2 - x1
        dy == y2 - y1
        dist == Isqrt(Dist2(dx, dy))
    IN  IF dist = 0
        THEN [start_x |-> x1, start_y |-> y1, end_x |-> x2, end_y |-> y2,
              start_offset |-> 0, end_offset |-> 0]
        ELSE LET start_offset == IF start_is_player THEN PLAYER_OFFSET ELSE ACTION_GAP
                 end_offset == IF end_is_player THEN PLAYER_OFFSET ELSE ACTION_GAP
             IN  [start_x |-> x1 + RoundDiv(dx * start_offset, dist),
                  start_y |-> y1 + RoundDiv(dy * start_offset, dist),
                  end_x |-> x2 - RoundDiv(dx * end_offset, dist),
                  end_y |-> y2 - RoundDiv(dy * end_offset, dist),
                  start_offset |-> start_offset, end_offset |-> end_offset]

\* draw_trimmed without its "if dist == 0: return"
draw_trimmed_unguarded(type, x1, y1, x2, y2, start_is_player, end_is_player) ==
    LET p == get_offset_points(x1, y1, x2, y2, start_is_player, end_is_player)
        dist == Isqrt(Dist2(p.end_x - p.start_x, p.end_y - p.start_y))
    IN  Call(type, x1, y1, x2, y2, start_is_player, end_is_player,
             p.start_offset, p.end_offset, p.start_x, p.start_y, p.end_x, p.end_y,
             dist, TRUE)

\* the body shared by draw_pass, draw_run and draw_dribble: trim, then return
\* without drawing when the trimmed segment has length 0
draw_trimmed(type, x1, y1, x2, y2, start_is_player, end_is_player) ==
    LET p == get_offset_points(x1, y1, x2, y2, start_is_player, end_is_player)
        dist == Isqrt(Dist2(p.end_x - p.start_x, p.end_y - p.start_y))
    IN  Call(type, x1, y1, x2, y2, start_is_player, end_is_player,
             p.start_offset, p.end_offset, p.start_x, p.start_y, p.end_x, p.end_y,
             dist, dist # 0)

draw_pass(x1, y1, x2, y2, start_is_player, end_is_player) ==
    draw_trimmed("PASS", x1, y1, x2, y2, start_is_player, end_is_player)

draw_run(x1, y1, x2, y2, start_is_player, end_is_player) ==
    draw_trimmed("RUN", x1, y1, x2, y2, start_is_player, end_is_player)

draw_dribble(x1, y1, x2, y2, start_is_player, end_is_player) ==
    draw_trimmed("DRIBBLE", x1, y1, x2, y2, start_is_player, end_is_player)

\* draw_shot without "Offset the start point": the arrow leaves the raw start
draw_shot_raw_start(x1, y1, start_is_player, goal_y) ==
    LET goal_x == 5000
        dist == Isqrt(Dist2(goal_x - x1, goal_y - y1))
    IN  Call("SHOT", x1, y1, goal_x, goal_y, start_is_player, FALSE,
             0, 0, x1, y1, goal_x, goal_y, dist, dist # 0)

draw_shot(x1, y1, start_is_player, goal_y) ==
    LET goal_x == 5000
        dx == goal_x - x1
        dy == goal_y - y1
        dist == Isqrt(Dist2(dx, dy))
    IN  IF dist = 0
        THEN Call("SHOT", x1, y1, goal_x, goal_y, start_is_player, FALSE,
                  0, 0, x1, y1, goal_x, goal_y, 0, FALSE)
        ELSE LET start_offset == IF start_is_player THEN PLAYER_OFFSET ELSE ACTION_GAP
                 start_x == x1 + RoundDiv(dx * start_offset, dist)
                 start_y == y1 + RoundDiv(dy * start_offset, dist)
                 dist2 == Isqrt(Dist2(goal_x - start_x, goal_y - start_y))
             IN  Call("SHOT", x1, y1, goal_x, goal_y, start_is_player, FALSE,
                      start_offset, 0, start_x, start_y, goal_x, goal_y,
                      dist2, dist2 # 0)

\* what ax.plot and ax.arrow add to the figure for one call
Op(kind, x, y) == [kind |-> kind, x |-> x, y |-> y]

arrow_ops(c) ==
    IF c.drawn
    THEN << Op("line", c.start_x, c.start_y), Op("arrowhead", c.end_x, c.end_y) >>
    ELSE << >>

(* ---------------------------------------------------------------------- *)
(* PositionTracker                                                         *)
(* ---------------------------------------------------------------------- *)

\* the dict built by the loop over drill.players: a later player with the
\* same id overwrites an earlier one
player_table(players) ==
    [pid \in {players[k].id : k \in DOMAIN players} |->
        players[Max({k \in DOMAIN players : players[k].id = pid})].position]

\* first_action_holder that also takes the player of an opening Run
first_action_holder_with_run(d) ==
    IF d.actions # << >>
    THEN LET first_action == d.actions[1]
         IN  IF first_action.type = "PASS" THEN first_action.from_player
             ELSE first_action.player
    ELSE None

\* "Determine ball holder from the FIRST action"
first_action_holder(d) ==
    IF d.actions # << >>
    THEN LET first_action == d.actions[1]
         IN  IF first_action.type = "PASS" THEN first_action.from_player
             ELSE IF first_action.type \in {"DRIBBLE", "SHOT"} THEN first_action.player
             ELSE None
    ELSE None

\* closest_player with the comparison turned round: the farthest player wins
RECURSIVE closest_player_flipped(_, _, _, _, _)
closest_player_flipped(players, ball, k, min_dist, holder) ==
    IF k > Len(players) THEN holder
    ELSE LET dist == Dist2(players[k].position.x - ball.x, players[k].position.y - ball.y)
         IN  IF min_dist = -1 \/ dist > min_dist
             THEN closest_player_flipped(players, ball, k + 1, dist, players[k].id)
             ELSE closest_player_flipped(players, ball, k + 1, min_dist, holder)

\* the fallback loop: the first player, in document order, at the least
\* distance from the ball.  min_dist = -1 stands for float('inf'); squared
\* distances are compared, np.sqrt being strictly increasing on them.
RECURSIVE closest_player(_, _, _, _, _)
closest_player(players, ball, k, min_dist, holder) ==
    IF k > Len(players) THEN holder
    ELSE LET dist == Dist2(players[k].position.x - ball.x, players[k].position.y - ball.y)
         IN  IF min_dist = -1 \/ dist < min_dist
             THEN closest_player(players, ball, k + 1, dist, players[k].id)
             ELSE closest_player(players, ball, k + 1, min_dist, holder)

\* initial_holder by distance first: the first action is asked only when
\* the document has no ball
initial_holder_by_distance(d) ==
    IF d.balls # << >>
    THEN closest_player(d.players, d.balls[1], 1, -1, None)
    ELSE first_action_holder(d)

initial_holder(d) ==
    LET h == first_action_holder(d)
    IN  IF h = None /\ d.balls # << >>
        THEN closest_player(d.players, d.balls[1], 1, -1, h)
        ELSE h

PositionTracker_init(d) ==
    LET positions == player_table(d.players)
        holder == initial_holder(d)
    IN  [player_positions |-> positions,
         player_has_moved |-> [pid \in DOMAIN positions |-> FALSE],
         ball_holder |-> holder,
         ball_position |->
            IF holder # None /\ holder \in DOMAIN positions THEN positions[holder]
            ELSE IF d.balls # << >> THEN d.balls[1]
            ELSE NoPosition]

get_player_position(positions, player_id) ==
    IF player_id \in DOMAIN positions THEN positions[player_id] ELSE [x |-> 0, y |-> 0]

\* is_at_starting_position that never consults the moved flags
is_at_starting_position_always(has_moved, player_id) == TRUE

is_at_starting_position(has_moved, player_id) ==
    ~ (IF player_id \in DOMAIN has_moved THEN has_moved[player_id] ELSE FALSE)

\* dict assignment d[key] = value
Store(f, key, value) ==
    [k \in DOMAIN f \cup {key} |-> IF k = key THEN value ELSE f[k]]

\* update_player_position that marks the player moved but loses the position
update_player_position_stale(t, player_id, pos) ==
    [player_positions |-> t.player_positions,
     player_has_moved |-> Store(t.player_has_moved, player_id, TRUE),
     ball_holder |-> t.ball_holder,
     ball_position |-> t.ball_position]

\* update_player_position that hands the ball to the player who moves
update_player_position_takes_ball(t, player_id, pos) ==
    [player_positions |-> Store(t.player_positions, player_id, pos),
     player_has_moved |-> Store(t.player_has_moved, player_id, TRUE),
     ball_holder |-> player_id,
     ball_position |-> pos]

\* update_player_position without self.player_has_moved[player_id] = True
update_player_position_unflagged(t, player_id, pos) ==
    [t EXCEPT !.player_positions = Store(t.player_positions, player_id, pos),
              !.ball_position = IF t.ball_holder = player_id THEN pos ELSE @]

\* update_player_position without its last two lines: the ball stays where
\* it was when its holder moves
update_player_position_ball_left(t, player_id, pos) ==
    [t EXCEPT !.player_positions = Store(t.player_positions, player_id, pos),
              !.player_has_moved = Store(t.player_has_moved, player_id, TRUE)]

\* update_player_position on the tracker record t
update_player_position(t, player_id, pos) ==
    [player_positions |-> Store(t.player_positions, player_id, pos),
     player_has_moved |-> Store(t.player_has_moved, player_id, TRUE),
     ball_holder |-> t.ball_holder,
     ball_position |-> IF t.ball_holder = player_id THEN pos ELSE t.ball_position]

\* transfer_ball that leaves the holder as it was
transfer_ball_kept(t, to_player_id) == t

\* transfer_ball that also marks the receiver as moved
transfer_ball_marks_moved(t, to_player_id) ==
    [player_positions |-> t.player_positions,
     player_has_moved |-> Store(t.player_has_moved, to_player_id, TRUE),
     ball_holder |-> to_player_id,
     ball_position |-> t.player_positions[to_player_id]]

\* transfer_ball on the tracker record t; the caller has checked that
\* to_player_id is a key of player_positions (a KeyError otherwise)
transfer_ball(t, to_player_id) ==
    [player_positions |-> t.player_positions,
     player_has_moved |-> t.player_has_moved,
     ball_holder |-> to_player_id,
     ball_position |-> t.player_positions[to_player_id]]

(* ---------------------------------------------------------------------- *)
(* _get_first_action_direction and the ball marker                         *)
(* ---------------------------------------------------------------------- *)

\* next(p for p in drill.players if p.id == pid).position
start_position(d, pid) ==
    d.players[Min({k \in DOMAIN d.players : d.players[k].id = pid})].position

\* the vector of action a when it is a Pass, Dribble or Shot by ball_holder,
\* and the zero vector in every other case
holder_direction(d, a, ball_holder) ==
    LET holder_pos == start_position(d, ball_holder)
    IN  IF a.type = "PASS" /\ a.from_player = ball_holder
        THEN [dx |-> start_position(d, a.to_player).x - holder_pos.x,
              dy |-> start_position(d, a.to_player).y - holder_pos.y]
        ELSE IF a.type = "DRIBBLE" /\ a.player = ball_holder
        THEN [dx |-> a.to_position.x - holder_pos.x,
              dy |-> a.to_position.y - holder_pos.y]
        ELSE IF a.type = "SHOT" /\ a.player = ball_holder
        THEN [dx |-> 5000 - holder_pos.x, dy |-> attacking_goal_y(d) - holder_pos.y]
        ELSE [dx |-> 0, dy |-> 0]

\* the loop of _get_first_action_direction from action k on: the first
\* vector of positive length, with its length; dist = 0 stands for None
RECURSIVE get_first_action_direction(_, _, _)
get_first_action_direction(d, ball_holder, k) ==
    IF k > Len(d.actions) THEN [dx |-> 0, dy |-> 0, dist |-> 0]
    ELSE LET v == holder_direction(d, d.actions[k], ball_holder)
             dist == Isqrt(Dist2(v.dx, v.dy))
         IN  IF dist > 0 THEN [dx |-> v.dx, dy |-> v.dy, dist |-> dist]
             ELSE get_first_action_direction(d, ball_holder, k + 1)

\* next(p for p in drill.players if p.id == pid) finds no player and raises
\* StopIteration
no_such_player(d, pid) == \A k \in DOMAIN d.players : d.players[k].id # pid

\* whether the loop of _get_first_action_direction, from action k on, ends in
\* the StopIteration of a next(...) before it returns: an action of the
\* holder is reached whose holder, or whose Pass receiver, is no player
RECURSIVE first_action_direction_raises(_, _, _)
first_action_direction_raises(d, ball_holder, k) ==
    IF k > Len(d.actions) THEN FALSE
    ELSE LET a == d.actions[k]
             by_holder == \/ a.type = "PASS" /\ a.from_player = ball_holder
                          \/ a.type \in {"DRIBBLE", "SHOT"} /\ a.player = ball_holder
         IN  IF by_holder /\ (\/ no_such_player(d, ball_holder)
                              \/ a.type = "PASS" /\ no_such_player(d, a.to_player))
             THEN TRUE
             ELSE LET v == holder_direction(d, a, ball_holder)
                  IN  IF by_holder /\ Isqrt(Dist2(v.dx, v.dy)) > 0 THEN FALSE
                      ELSE first_action_direction_raises(d, ball_holder, k + 1)

\* where render() draws a ball of the document
ball_marker(d, ball, ball_holder) ==
    IF ball_holder # None
    THEN LET at == IF \E k \in DOMAIN d.players : d.players[k].id = ball_holder
                   THEN start_position(d, ball_holder) ELSE ball
             direction == get_first_action_direction(d, ball_holder, 1)
         IN  IF direction.dist > 0
             THEN [x |-> at.x + RoundDiv(direction.dx * BALL_OFFSET, direction.dist),
                   y |-> at.y + RoundDiv(direction.dy * BALL_OFFSET, direction.dist)]
             ELSE at
    ELSE ball

\* the player whose position is the raw start of action a
Actor(a) == IF a.type = "PASS" THEN a.from_player ELSE a.player

(* ---------------------------------------------------------------------- *)
(* render(): state                                                         *)
(* ---------------------------------------------------------------------- *)

VARIABLES
    drill,      \* the Drill handed to render(); never assigned
    pc,         \* where render() stands
    i,          \* index of the next action of the loop over drill.actions
    view,       \* the FieldRenderer's content_* and x_min..y_max
    tracker,    \* the PositionTracker
    ops,        \* what has been drawn on the axes, in drawing order
    calls,      \* the draw_pass / draw_run / draw_dribble / draw_shot calls made
    raised,     \* whether render() ended by an exception
    generation  \* the locals of DrillGenerator.generate_from_request

vars == << drill, pc, i, view, tracker, ops, calls, raised, generation >>

\* generate_from_request is not running
NoGeneration ==
    [max_retries |-> 0, attempt |-> 0, llm_calls |-> 0, last_error |-> None,
     responses |-> << >>]

\* no FieldRenderer yet
NoView ==
    [content_x_min |-> -1, content_x_max |-> -1, content_y_min |-> -1,
     content_y_max |-> -1, x_min |-> -1, x_max |-> -1, y_min |-> -1, y_max |-> -1]

\* no PositionTracker yet
NoTracker ==
    [player_positions |-> << >>, player_has_moved |-> << >>,
     ball_holder |-> None, ball_position |-> NoPosition]

Init ==
    /\ drill \in Drills
    /\ pc = "start"
    /\ i = 1
    /\ view = NoView
    /\ tracker = NoTracker
    /\ ops = << >>
    /\ calls = << >>
    /\ raised = FALSE
    /\ generation = NoGeneration

(* ---------------------------------------------------------------------- *)
(* render(): steps                                                         *)
(* ---------------------------------------------------------------------- *)

\* the two cones render() draws for a cone gate
gate_cone(g, side) ==
    IF g.orientation = "HORIZONTAL"
    THEN Op("cone", g.center.x + side * (g.width \div 2), g.center.y)
    ELSE Op("cone", g.center.x, g.center.y + side * (g.width \div 2))

gate_cones(d) ==
    [j \in 1..(2 * Len(d.cone_gates)) |->
        gate_cone(d.cone_gates[(j + 1) \div 2], IF j % 2 = 1 THEN -1 ELSE 1)]

\* field_renderer = FieldRenderer(ax, drill); field_renderer.draw()
DrawField ==
    /\ pc = "start"
    /\ view' = calculate_bounds(drill)
    /\ ops' = Append(ops, Op("field", view'.x_min, view'.y_min))
    /\ pc' = "entities"
    /\ UNCHANGED << drill, i, tracker, calls, raised >>
    /\ UNCHANGED generation

\* DrawEntities with the players drawn before the equipment
DrawEntities_players_first ==
    /\ pc = "entities"
    /\ ops' = ops \o [k \in DOMAIN drill.players |->
                        Op("player", drill.players[k].position.x, drill.players[k].position.y)]
                  \o gate_cones(drill)
                  \o [k \in DOMAIN drill.cones |->
                        Op("cone", drill.cones[k].x, drill.cones[k].y)]
                  \o [k \in DOMAIN drill.mannequins |->
                        Op("mannequin", drill.mannequins[k].x, drill.mannequins[k].y)]
    /\ pc' = "tracker"
    /\ UNCHANGED << drill, i, view, tracker, calls, raised >>
    /\ UNCHANGED generation

\* gate cones, cones, mannequins, then the players at their starting positions
DrawEntities ==
    /\ pc = "entities"
    /\ ops' = ops \o gate_cones(drill)
                  \o [k \in DOMAIN drill.cones |->
                        Op("cone", drill.cones[k].x, drill.cones[k].y)]
                  \o [k \in DOMAIN drill.mannequins |->
                        Op("mannequin", drill.mannequins[k].x, drill.mannequins[k].y)]
                  \o [k \in DOMAIN drill.players |->
                        Op("player", drill.players[k].position.x, drill.players[k].position.y)]
    /\ pc' = "tracker"
    /\ UNCHANGED << drill, i, view, tracker, calls, raised >>
    /\ UNCHANGED generation

\* tracker = PositionTracker(drill)
CreateTracker ==
    /\ pc = "tracker"
    /\ tracker' = PositionTracker_init(drill)
    /\ pc' = "balls"
    /\ UNCHANGED << drill, i, view, ops, calls, raised >>
    /\ UNCHANGED generation

\* the loop over drill.balls
DrawBalls ==
    /\ pc = "balls"
    /\ IF /\ drill.balls # << >>
          /\ tracker.ball_holder # None
          /\ first_action_direction_raises(drill, tracker.ball_holder, 1)
       THEN /\ raised' = TRUE
            /\ pc' = "done"
            /\ UNCHANGED ops
       ELSE /\ ops' = ops \o [k \in DOMAIN drill.balls |->
                        LET b == ball_marker(drill, drill.balls[k], tracker.ball_holder)
                        IN  Op("ball", b.x, b.y)]
            /\ pc' = "actions"
            /\ UNCHANGED raised
    /\ UNCHANGED << drill, i, view, tracker, calls >>
    /\ UNCHANGED generation

\* one iteration of the loop over drill.actions, action_type == "PASS"
RenderPass ==
    /\ pc = "actions"
    /\ i <= Len(drill.actions)
    /\ drill.actions[i].type = "PASS"
    /\ LET action == drill.actions[i]
           from == get_player_position(tracker.player_positions, action.from_player)
           to == get_player_position(tracker.player_positions, action.to_player)
           start_is_player == is_at_starting_position(tracker.player_has_moved, action.from_player)
           end_is_player == is_at_starting_position(tracker.player_has_moved, action.to_player)
           c == draw_pass(from.x, from.y, to.x, to.y, start_is_player, end_is_player)
       IN  /\ calls' = Append(calls, c)
           /\ ops' = ops \o arrow_ops(c)
           /\ IF action.to_player \in DOMAIN tracker.player_positions
              THEN /\ tracker' = transfer_ball(tracker, action.to_player)
                   /\ i' = i + 1
                   /\ UNCHANGED << pc, raised >>
              ELSE /\ tracker' = [tracker EXCEPT !.ball_holder = action.to_player]
                   /\ raised' = TRUE
                   /\ pc' = "done"
                   /\ UNCHANGED i
    /\ UNCHANGED << drill, view >>
    /\ UNCHANGED generation

\* one iteration of the loop over drill.actions, action_type == "RUN"
RenderRun ==
    /\ pc = "actions"
    /\ i <= Len(drill.actions)
    /\ drill.actions[i].type = "RUN"
    /\ LET action == drill.actions[i]
           start == get_player_position(tracker.player_positions, action.player)
           end == action.to_position
           start_is_player == is_at_starting_position(tracker.player_has_moved, action.player)
           c == draw_run(start.x, start.y, end.x, end.y, start_is_player, FALSE)
       IN  /\ calls' = Append(calls, c)
           /\ ops' = ops \o arrow_ops(c)
           /\ tracker' = update_player_position(tracker, action.player, end)
    /\ i' = i + 1
    /\ UNCHANGED << drill, pc, view, raised >>
    /\ UNCHANGED generation

\* one iteration of the loop over drill.actions, action_type == "DRIBBLE"
RenderDribble ==
    /\ pc = "actions"
    /\ i <= Len(drill.actions)
    /\ drill.actions[i].type = "DRIBBLE"
    /\ LET action == drill.actions[i]
           start == get_player_position(tracker.player_positions, action.player)
           end == action.to_position
           start_is_player == is_at_starting_position(tracker.player_has_moved, action.player)
           c == draw_dribble(start.x, start.y, end.x, end.y, start_is_player, FALSE)
       IN  /\ calls' = Append(calls, c)
           /\ ops' = ops \o arrow_ops(c)
           /\ tracker' = update_player_position(tracker, action.player, end)
    /\ i' = i + 1
    /\ UNCHANGED << drill, pc, view, raised >>
    /\ UNCHANGED generation

\* one iteration of the loop over drill.actions, action_type == "SHOT"
RenderShot ==
    /\ pc = "actions"
    /\ i <= Len(drill.actions)
    /\ drill.actions[i].type = "SHOT"
    /\ LET action == drill.actions[i]
           start == get_player_position(tracker.player_positions, action.player)
           start_is_player == is_at_starting_position(tracker.player_has_moved, action.player)
           c == draw_shot(start.x, start.y, start_is_player, attacking_goal_y(drill))
       IN  /\ calls' = Append(calls, c)
           /\ ops' = ops \o arrow_ops(c)
    /\ i' = i + 1
    /\ UNCHANGED << drill, pc, view, tracker, raised >>
    /\ UNCHANGED generation

\* plt.savefig(...); plt.close(); return output_path
Save ==
    /\ pc = "actions"
    /\ i > Len(drill.actions)
    /\ pc' = "done"
    /\ UNCHANGED << drill, i, view, tracker, ops, calls, raised >>
    /\ UNCHANGED generation

Next ==
    \/ DrawField
    \/ DrawEntities
    \/ CreateTracker
    \/ DrawBalls
    \/ RenderPass
    \/ RenderRun
    \/ RenderDribble
    \/ RenderShot
    \/ Save

Spec == Init /\ [][Next]_vars

(* ---------------------------------------------------------------------- *)
(* schema.py: Drill.model_validate                                         *)
(* ---------------------------------------------------------------------- *)

\* longest action list of the raw documents
MaxRawActions == 2

\* str.upper() on the id strings of the raw documents
upper(v) ==
    CASE v = "a2" -> "A2"
      [] v = "g1" -> "G1"
      [] OTHER -> v

\* Field(pattern=r"^[A-Z]+[0-9]*$") on the id strings of the raw documents,
\* which are letters followed by digits: the match fails on a lower-case letter
id_pattern(v) == v = upper(v)

\* the field validators of the action models: ids are upper-cased,
\* through_gate only when it is set
validate_action(a) ==
    [a EXCEPT !.from_player = IF @ = None THEN None ELSE upper(@),
              !.to_player = IF @ = None THEN None ELSE upper(@),
              !.player = IF @ = None THEN None ELSE upper(@),
              !.through_gate = IF @ = None THEN None ELSE upper(@)]

\* whether the fields of the raw document data pass their own validation:
\* at least one player, player and gate ids matching the pattern
fields_valid(data) ==
    /\ Len(data.players) >= 1
    /\ \A k \in DOMAIN data.players : id_pattern(data.players[k].id)
    /\ \A k \in DOMAIN data.cone_gates : id_pattern(data.cone_gates[k].id)

\* the Drill built from data once its fields are validated
validate_fields(data) ==
    [data EXCEPT !.actions = [k \in DOMAIN data.actions |-> validate_action(data.actions[k])]]

\* validate_references without the test of through_gate
validate_references_players_only(d) ==
    LET player_ids == {d.players[k].id : k \in DOMAIN d.players}
    IN  \A k \in DOMAIN d.actions :
            LET action == d.actions[k]
            IN  IF action.type = "PASS"
                THEN action.from_player \in player_ids /\ action.to_player \in player_ids
                ELSE action.player \in player_ids

\* Drill.validate_references: TRUE when it returns self, FALSE when it
\* raises ValueError
validate_references(d) ==
    LET player_ids == {d.players[k].id : k \in DOMAIN d.players}
        gate_ids == {d.cone_gates[k].id : k \in DOMAIN d.cone_gates}
    IN  \A k \in DOMAIN d.actions :
            LET action == d.actions[k]
            IN  IF action.type = "PASS"
                THEN action.from_player \in player_ids /\ action.to_player \in player_ids
                ELSE IF action.type \in {"RUN", "DRIBBLE"}
                THEN /\ action.player \in player_ids
                     /\ (action.type = "DRIBBLE" /\ action.through_gate # None) =>
                            action.through_gate \in gate_ids
                ELSE IF action.type = "SHOT"
                THEN action.player \in player_ids
                ELSE TRUE

\* raw documents handed to Drill.model_validate: one or two players (also two
\* players under one id, a lower-case player id, no player at all), no gate or
\* the gate G1, and action lists whose ids may be lower-case or unknown
RawPlayers ==
    {<< >>,
     << Player("A1", "ATTACKER", Position(30, 50)) >>,
     << Player("A1", "ATTACKER", Position(30, 50)),
        Player("A2", "ATTACKER", Position(70, 50)) >>,
     << Player("A1", "ATTACKER", Position(30, 50)),
        Player("a2", "ATTACKER", Position(70, 50)) >>,
     << Player("A1", "ATTACKER", Position(30, 50)),
        Player("A1", "DEFENDER", Position(70, 50)) >>}

RawGates == {<< >>, << ConeGate("G1", Position(50, 60), 10, "HORIZONTAL") >>}

RawBalls == {<< >>, << Position(30, 50) >>}

RawActions ==
    {PassAction("A1", "a2"), PassAction("A1", "B7"), PassAction("B7", "A1"),
     PassAction("A1", "A1")}
    \cup {RunAction(p, Position(35, 70)) : p \in {"A1", "B7"}}
    \cup {DribbleAction(p, Position(55, 88)) : p \in {"A1", "B7"}}
    \cup {DribbleThroughGate("A1", Position(55, 88), g) : g \in {"g1", "G2"}}
    \cup {ShotAction(p) : p \in {"A1", "a2", "B7"}}

RawDocuments ==
    {Drill(FieldConfig("NORTH", 1), ps, << >>, g, b, << >>, a) :
        ps \in RawPlayers, g \in RawGates, b \in RawBalls,
        a \in SeqsUpTo(RawActions, MaxRawActions)}

\* before drill = Drill.model_validate(data): drill holds the raw data
InitRaw ==
    /\ drill \in RawDocuments
    /\ pc = "validate"
    /\ i = 1
    /\ view = NoView
    /\ tracker = NoTracker
    /\ ops = << >>
    /\ calls = << >>
    /\ raised = FALSE
    /\ generation = NoGeneration

\* drill = Drill.model_validate(data): the Drill goes on to render(), or a
\* ValidationError ends the run
ModelValidate ==
    /\ pc = "validate"
    /\ IF fields_valid(drill) /\ validate_references(validate_fields(drill))
       THEN /\ drill' = validate_fields(drill)
            /\ pc' = "start"
       ELSE /\ pc' = "rejected"
            /\ UNCHANGED drill
    /\ UNCHANGED << i, view, tracker, ops, calls, raised >>
    /\ UNCHANGED generation

NextValidated == ModelValidate \/ Next

\* validation, then rendering of what validation accepts
SpecValidated == InitRaw /\ [][NextValidated]_vars

\* Drill objects whose parts were validated one by one but which never went
\* through validate_references (Drill.model_construct, or lists edited after
\* validation, which pydantic does not validate again)
UnvalidatedDrills ==
    {validate_fields(data) : data \in {r \in RawDocuments : fields_valid(r)}}

InitUnvalidated ==
    /\ drill \in UnvalidatedDrills
    /\ pc = "start"
    /\ i = 1
    /\ view = NoView
    /\ tracker = NoTracker
    /\ ops = << >>
    /\ calls = << >>
    /\ raised = FALSE
    /\ generation = NoGeneration

\* render() on a Drill that skipped validate_references
SpecUnvalidated == InitUnvalidated /\ [][Next]_vars

(* ---------------------------------------------------------------------- *)
(* render_to_png(), run by the pipeline after render() on the same drill   *)
(* ---------------------------------------------------------------------- *)

\* longest action list of the pipeline documents
MaxPipelineActions == 2

\* where render_to_png() draws a ball of the document: at the ball's own
\* position, moved toward the holder's first action
ball_marker_png(d, ball, ball_holder) ==
    IF ball_holder # None
    THEN LET direction == get_first_action_direction(d, ball_holder, 1)
         IN  IF direction.dist > 0
             THEN [x |-> ball.x + RoundDiv(direction.dx * BALL_OFFSET, direction.dist),
                   y |-> ball.y + RoundDiv(direction.dy * BALL_OFFSET, direction.dist)]
             ELSE ball
    ELSE ball

\* documents of the pipeline: two players far apart or close together, a
\* gate, a cone and a mannequin, no ball, one ball (on the first player or
\* away from both) or two balls, and up to MaxPipelineActions actions
ClosePlayers ==
    << Player("A1", "ATTACKER", Position(30, 50)),
       Player("A2", "ATTACKER", Position(33, 50)) >>

PipelineBalls ==
    {<< >>, << Position(30, 50) >>, << Position(50, 50) >>,
     << Position(30, 50), Position(60, 40) >>,
     << Position(50, 50), Position(60, 40) >>}

PipelineActions ==
    {PassAction("A1", "A2"), PassAction("A2", "A1"),
     RunAction("A2", Position(55, 88)), RunAction("A1", Position(31, 50)),
     DribbleAction("A1", Position(35, 70)), DribbleAction("A2", Position(33, 54)),
     ShotAction("A1"), ShotAction("A2")}

PipelineDrills ==
    {Drill(FieldConfig("NORTH", 1), ps,
           << Position(50, 20) >>,
           << ConeGate("G1", Position(50, 60), 10, "HORIZONTAL") >>,
           b, << Position(90, 60) >>, a) :
        ps \in {DemoPlayers, ClosePlayers}, b \in PipelineBalls,
        a \in SeqsUpTo(PipelineActions, MaxPipelineActions)}

InitPipeline ==
    /\ drill \in PipelineDrills
    /\ pc = "start"
    /\ i = 1
    /\ view = NoView
    /\ tracker = NoTracker
    /\ ops = << >>
    /\ calls = << >>
    /\ raised = FALSE
    /\ generation = NoGeneration

\* PngDrawField that pads the rectangle left by render() once more instead
\* of computing it from the document
PngDrawField_repadded ==
    /\ pc = "done"
    /\ ~ raised
    /\ view' = [view EXCEPT !.x_min = Max({0, @ - padding}),
                            !.x_max = Min({10000, @ + padding}),
                            !.y_min = Max({0, @ - padding}),
                            !.y_max = Min({10000, @ + padding})]
    /\ ops' = << Op("field", view'.x_min, view'.y_min) >>
    /\ calls' = << >>
    /\ i' = 1
    /\ pc' = "png_entities"
    /\ UNCHANGED << drill, tracker, raised >>
    /\ UNCHANGED generation

\* render_to_png: a new figure; field_renderer = FieldRenderer(ax, drill);
\* field_renderer.draw()
PngDrawField ==
    /\ pc = "done"
    /\ ~ raised
    /\ view' = calculate_bounds(drill)
    /\ ops' = << Op("field", view'.x_min, view'.y_min) >>
    /\ calls' = << >>
    /\ i' = 1
    /\ pc' = "png_entities"
    /\ UNCHANGED << drill, tracker, raised >>
    /\ UNCHANGED generation

\* render_to_png: gate cones, cones, mannequins, players
PngDrawEntities ==
    /\ pc = "png_entities"
    /\ ops' = ops \o gate_cones(drill)
                  \o [k \in DOMAIN drill.cones |->
                        Op("cone", drill.cones[k].x, drill.cones[k].y)]
                  \o [k \in DOMAIN drill.mannequins |->
                        Op("mannequin", drill.mannequins[k].x, drill.mannequins[k].y)]
                  \o [k \in DOMAIN drill.players |->
                        Op("player", drill.players[k].position.x, drill.players[k].position.y)]
    /\ pc' = "png_tracker"
    /\ UNCHANGED << drill, i, view, tracker, calls, raised >>
    /\ UNCHANGED generation

\* render_to_png: tracker = PositionTracker(drill)
PngCreateTracker ==
    /\ pc = "png_tracker"
    /\ tracker' = PositionTracker_init(drill)
    /\ pc' = "png_balls"
    /\ UNCHANGED << drill, i, view, ops, calls, raised >>
    /\ UNCHANGED generation

\* render_to_png: the loop over drill.balls
PngDrawBalls ==
    /\ pc = "png_balls"
    /\ IF /\ drill.balls # << >>
          /\ tracker.ball_holder # None
          /\ first_action_direction_raises(drill, tracker.ball_holder, 1)
       THEN /\ raised' = TRUE
            /\ pc' = "png_done"
            /\ UNCHANGED ops
       ELSE /\ ops' = ops \o [k \in DOMAIN drill.balls |->
                        LET b == ball_marker_png(drill, drill.balls[k], tracker.ball_holder)
                        IN  Op("ball", b.x, b.y)]
            /\ pc' = "png_actions"
            /\ UNCHANGED raised
    /\ UNCHANGED << drill, i, view, tracker, calls >>
    /\ UNCHANGED generation

\* render_to_png: one iteration of the loop over drill.actions
PngRenderAction ==
    /\ pc = "png_actions"
    /\ i <= Len(drill.actions)
    /\ LET action == drill.actions[i]
           actor == get_player_position(tracker.player_positions, Actor(action))
           start_is_player == is_at_starting_position(tracker.player_has_moved, Actor(action))
       IN  IF action.type = "PASS"
           THEN LET to == get_player_position(tracker.player_positions, action.to_player)
                    end_is_player ==
                        is_at_starting_position(tracker.player_has_moved, action.to_player)
                    c == draw_pass(actor.x, actor.y, to.x, to.y, start_is_player, end_is_player)
                IN  /\ calls' = Append(calls, c)
                    /\ ops' = ops \o arrow_ops(c)
                    /\ IF action.to_player \in DOMAIN tracker.player_positions
                       THEN /\ tracker' = transfer_ball(tracker, action.to_player)
                            /\ i' = i + 1
                            /\ UNCHANGED << pc, raised >>
                       ELSE /\ tracker' = [tracker EXCEPT !.ball_holder = action.to_player]
                            /\ raised' = TRUE
                            /\ pc' = "png_done"
                            /\ UNCHANGED i
           ELSE IF action.type = "RUN"
           THEN LET end == action.to_position
                    c == draw_run(actor.x, actor.y, end.x, end.y, start_is_player, FALSE)
                IN  /\ calls' = Append(calls, c)
                    /\ ops' = ops \o arrow_ops(c)
                    /\ tracker' = update_player_position(tracker, action.player, end)
                    /\ i' = i + 1
                    /\ UNCHANGED << pc, raised >>
           ELSE IF action.type = "DRIBBLE"
           THEN LET end == action.to_position
                    c == draw_dribble(actor.x, actor.y, end.x, end.y, start_is_player, FALSE)
                IN  /\ calls' = Append(calls, c)
                    /\ ops' = ops \o arrow_ops(c)
                    /\ tracker' = update_player_position(tracker, action.player, end)
                    /\ i' = i + 1
                    /\ UNCHANGED << pc, raised >>
           ELSE LET c == draw_shot(actor.x, actor.y, start_is_player, attacking_goal_y(drill))
                IN  /\ calls' = Append(calls, c)
                    /\ ops' = ops \o arrow_ops(c)
                    /\ i' = i + 1
                    /\ UNCHANGED << pc, tracker, raised >>
    /\ UNCHANGED << drill, view >>
    /\ UNCHANGED generation

\* render_to_png: plt.savefig(...); plt.close(); return output_path
PngSave ==
    /\ pc = "png_actions"
    /\ i > Len(drill.actions)
    /\ pc' = "png_done"
    /\ UNCHANGED << drill, i, view, tracker, ops, calls, raised >>
    /\ UNCHANGED generation

NextPipeline ==
    \/ Next
    \/ PngDrawField
    \/ PngDrawEntities
    \/ PngCreateTracker
    \/ PngDrawBalls
    \/ PngRenderAction
    \/ PngSave

\* render(drill, output_svg), then render_to_png(drill, output_png)
SpecPipeline == InitPipeline /\ [][NextPipeline]_vars

(* ---------------------------------------------------------------------- *)
(* generator.py: DrillGenerator.generate_from_request                      *)
(* ---------------------------------------------------------------------- *)

\* the largest max_retries a caller passes
MaxRetries == 3

\* what one call of client.chat.completions.create leads to: the call raises,
\* or its content is not JSON, or json.loads returns the data of a document
LlmResponse(kind, data) == [kind |-> kind, data |-> data]

\* the documents the LLM answers with: no player or two players, and no
\* action, a Pass to a lower-case id or a Pass to an unknown id
LlmDocuments ==
    {Drill(FieldConfig("NORTH", 1), ps, << >>, << >>, << >>, << >>, a) :
        ps \in {<< >>, << Player("A1", "ATTACKER", Position(30, 50)),
                          Player("A2", "ATTACKER", Position(70, 50)) >>},
        a \in {<< >>, << PassAction("A1", "a2") >>, << PassAction("A1", "B7") >>}}

LlmResponses ==
    {LlmResponse("APIError", << >>), LlmResponse("JSONDecodeError", << >>)}
    \cup {LlmResponse("data", << doc >>) : doc \in LlmDocuments}

\* whether the try block of one attempt reaches return drill: the call and
\* json.loads succeed and Drill.model_validate accepts the data
attempt_succeeds(response) ==
    /\ response.kind = "data"
    /\ fields_valid(response.data[1])
    /\ validate_references(validate_fields(response.data[1]))

\* no Drill is bound yet
NoDrill == << >>

\* generate_from_request is entered: last_error = None, the loop has not begun
InitGenerate ==
    /\ drill = NoDrill
    /\ pc = "generate"
    /\ i = 1
    /\ view = NoView
    /\ tracker = NoTracker
    /\ ops = << >>
    /\ calls = << >>
    /\ raised = FALSE
    /\ \E max_retries \in 0..MaxRetries :
          generation = [NoGeneration EXCEPT !.max_retries = max_retries]

\* the loop with one pass more: for attempt in range(max_retries + 1)
GenerateAttempt_one_more ==
    /\ pc = "generate"
    /\ generation.attempt <= generation.max_retries
    /\ \E response \in LlmResponses :
          LET called == [generation EXCEPT !.llm_calls = @ + 1,
                                           !.responses = Append(@, response)]
          IN  IF attempt_succeeds(response)
              THEN /\ drill' = validate_fields(response.data[1])
                   /\ pc' = "generated"
                   /\ generation' = called
              ELSE /\ generation' =
                         [called EXCEPT !.attempt = @ + 1,
                                        !.last_error =
                                            IF response.kind = "JSONDecodeError"
                                            THEN "JSON decode error" ELSE "error"]
                   /\ UNCHANGED << drill, pc >>
    /\ UNCHANGED << i, view, tracker, ops, calls, raised >>

\* one pass of for attempt in range(max_retries): the LLM is called; the
\* Drill is returned, or the exception is caught and kept in last_error
GenerateAttempt ==
    /\ pc = "generate"
    /\ generation.attempt < generation.max_retries
    /\ \E response \in LlmResponses :
          LET called == [generation EXCEPT !.llm_calls = @ + 1,
                                           !.responses = Append(@, response)]
          IN  IF attempt_succeeds(response)
              THEN /\ drill' = validate_fields(response.data[1])
                   /\ pc' = "generated"
                   /\ generation' = called
              ELSE /\ generation' =
                         [called EXCEPT !.attempt = @ + 1,
                                        !.last_error =
                                            IF response.kind = "JSONDecodeError"
                                            THEN "JSON decode error" ELSE "error"]
                   /\ UNCHANGED << drill, pc >>
    /\ UNCHANGED << i, view, tracker, ops, calls, raised >>

\* the loop is exhausted: raise RuntimeError(...)
GenerateRaise ==
    /\ pc = "generate"
    /\ generation.attempt >= generation.max_retries
    /\ pc' = "generate_failed"
    /\ raised' = TRUE
    /\ UNCHANGED << drill, i, view, tracker, ops, calls, generation >>

NextGenerate == GenerateAttempt \/ GenerateRaise

\* generate_from_request runs to its return or its raise: the code is one
\* sequential loop, and each call of the client returns or raises
SpecGenerate == InitGenerate /\ [][NextGenerate]_vars /\ WF_vars(NextGenerate)

(* ---------------------------------------------------------------------- *)
(* validator.py: BallTracker                                               *)
(* ---------------------------------------------------------------------- *)

\* BallTracker.__init__ with _find_initial_holder: no holder without a ball,
\* else the first player, in document order, at the least distance from the
\* first ball (the same loop as the fallback of PositionTracker)
find_initial_holder(d) ==
    IF d.balls = << >> THEN None
    ELSE closest_player(d.players, d.balls[1], 1, -1, None)

\* one pass of the loop of BallTracker.validate_actions on self.holder
process_action(holder, action) ==
    IF action.type = "PASS" THEN action.to_player
    ELSE IF action.type = "DRIBBLE" THEN holder
    ELSE IF action.type = "SHOT" THEN None
    ELSE holder

\* self.holder after the first n passes of the loop of validate_actions
RECURSIVE validate_actions(_, _)
validate_actions(d, n) ==
    IF n = 0 THEN find_initial_holder(d)
    ELSE process_action(validate_actions(d, n - 1), d.actions[n])

(* ---------------------------------------------------------------------- *)
(* Reference definitions of the properties, computed from the document     *)
(* ---------------------------------------------------------------------- *)


\* the indices, before action k, of the Runs and Dribbles of player pid
MovesBefore(pid, k) ==
    {j \in 1..(k - 1) : drill.actions[j].type \in {"RUN", "DRIBBLE"}
                        /\ drill.actions[j].player = pid}

\* the starting position of the document's player pid
SpawnOf(pid) ==
    LET k == CHOOSE k \in DOMAIN drill.players : drill.players[k].id = pid
    IN  drill.players[k].position

\* where player pid stands before action k: the destination of the latest
\* earlier Run or Dribble, the starting position when there is none
TrackedBefore(pid, k) ==
    IF MovesBefore(pid, k) = {} THEN SpawnOf(pid)
    ELSE drill.actions[Max(MovesBefore(pid, k))].to_position

\* the ids of the document's players
PlayerIds == {drill.players[k].id : k \in DOMAIN drill.players}

\* the distance between (x, y) and the point q is at most r, up to the two
\* hundredths that fixed-point rounding can add
Within(x, y, q, r) == Dist2(x - q.x, y - q.y) <= (r + 2) * (r + 2)

\* the raw start and the raw end of call c are the same point
ZeroLength(c) == c.x1 = c.x2 /\ c.y1 = c.y2

(* ---------------------------------------------------------------------- *)
(* C1                                                                      *)
(* ---------------------------------------------------------------------- *)

\* C1: once a player has been the actor of a Run or Dribble, every later
\* action that starts at that player's tracked position (a Pass from them, a
\* Run, Dribble or Shot by them) and every later Pass that ends there never
\* trims that endpoint by PLAYER_OFFSET, and trims it by ACTION_GAP whenever
\* the action has a rendered segment (distinct raw start and end): the
\* trimmed point then lies ACTION_GAP from the raw point.
C1_ChainGapAfterMove ==
    \A k \in DOMAIN calls :
        LET a == drill.actions[k]
            c == calls[k]
        IN  /\ MovesBefore(Actor(a), k) # {} =>
                  /\ c.start_offset # PLAYER_OFFSET
                  /\ ~ ZeroLength(c) =>
                        /\ c.start_offset = ACTION_GAP
                        /\ Within(c.start_x, c.start_y, [x |-> c.x1, y |-> c.y1], ACTION_GAP)
            /\ (a.type = "PASS" /\ MovesBefore(a.to_player, k) # {}) =>
                  /\ c.end_offset # PLAYER_OFFSET
                  /\ ~ ZeroLength(c) =>
                        /\ c.end_offset = ACTION_GAP
                        /\ Within(c.end_x, c.end_y, [x |-> c.x2, y |-> c.y2], ACTION_GAP)

\* a Pass has been drawn between two players who had both moved before it
C1_Witness ==
    \E k \in DOMAIN calls :
        /\ drill.actions[k].type = "PASS"
        /\ MovesBefore(drill.actions[k].from_player, k) # {}
        /\ MovesBefore(drill.actions[k].to_player, k) # {}
        /\ calls[k].drawn
        /\ calls[k].start_offset = ACTION_GAP
        /\ calls[k].end_offset = ACTION_GAP

(* ---------------------------------------------------------------------- *)
(* C2                                                                      *)
(* ---------------------------------------------------------------------- *)

\* C2: the raw start handed to the arrow renderer for action k is the
\* actor's position before action k (destination of the actor's latest
\* earlier Run or Dribble, else the starting position), a Pass's raw end is
\* the receiver's position computed the same way, and whenever the loop is
\* about to read action i every action before i has been drawn and applied:
\* the tracker holds each player's position before action i.
C2_PreActionCoordinates ==
    /\ \A k \in DOMAIN calls :
          LET a == drill.actions[k]
              c == calls[k]
          IN  /\ [x |-> c.x1, y |-> c.y1] = TrackedBefore(Actor(a), k)
              /\ a.type = "PASS" => [x |-> c.x2, y |-> c.y2] = TrackedBefore(a.to_player, k)
    /\ pc \in {"actions", "done"} =>
          /\ Len(calls) = i - 1
          /\ \A pid \in PlayerIds : tracker.player_positions[pid] = TrackedBefore(pid, i)

\* an action has been drawn from the destination of the second of two
\* earlier moves of its actor, which differs from the first destination
C2_Witness ==
    \E k \in DOMAIN calls :
        LET m == MovesBefore(Actor(drill.actions[k]), k)
        IN  /\ Cardinality(m) >= 2
            /\ drill.actions[Min(m)].to_position # drill.actions[Max(m)].to_position
            /\ calls[k].x1 = drill.actions[Max(m)].to_position.x
            /\ calls[k].y1 = drill.actions[Max(m)].to_position.y
            /\ calls[k].drawn

(* ---------------------------------------------------------------------- *)
(* C3                                                                      *)
(* ---------------------------------------------------------------------- *)

\* C3: right after the PositionTracker is constructed, the ball holder is the
\* from_player of the first action when it is a Pass and the player of the
\* first action when it is a Dribble or a Shot, wherever the ball is placed
\* (and whether or not the document has a ball).
C3_FirstActionHolder ==
    (pc = "balls" /\ drill.actions # << >>) =>
        /\ drill.actions[1].type = "PASS" =>
              tracker.ball_holder = drill.actions[1].from_player
        /\ drill.actions[1].type \in {"DRIBBLE", "SHOT"} =>
              tracker.ball_holder = drill.actions[1].player

\* the tracker has been constructed for a document whose first action is a
\* Pass from A2 while the ball lies on A1, nearer to A1 than to A2
C3_Witness ==
    /\ pc = "balls"
    /\ drill.actions # << >>
    /\ drill.actions[1].type = "PASS"
    /\ drill.actions[1].from_player = "A2"
    /\ drill.balls # << >>
    /\ drill.balls[1] = SpawnOf("A1")
    /\ SpawnOf("A2") # SpawnOf("A1")
    /\ tracker.ball_holder = "A2"

(* ---------------------------------------------------------------------- *)
(* C4                                                                      *)
(* ---------------------------------------------------------------------- *)

\* C4: for a document with no actions and at least one ball, the initial
\* ball holder is a player of the document whose starting position is at
\* the least Euclidean distance from the first ball.
C4_NearestPlayerHolder ==
    (pc = "balls" /\ drill.actions = << >> /\ drill.balls # << >>) =>
        /\ tracker.ball_holder \in PlayerIds
        /\ \A k \in DOMAIN drill.players :
              Dist2(SpawnOf(tracker.ball_holder).x - drill.balls[1].x,
                    SpawnOf(tracker.ball_holder).y - drill.balls[1].y)
                <= Dist2(drill.players[k].position.x - drill.balls[1].x,
                         drill.players[k].position.y - drill.balls[1].y)

\* no actions, a ball, and the second player strictly nearer to it than the
\* first: the holder is the second player
C4_Witness ==
    /\ pc = "balls"
    /\ drill.actions = << >>
    /\ drill.balls # << >>
    /\ Len(drill.players) = 2
    /\ Dist2(drill.players[2].position.x - drill.balls[1].x,
             drill.players[2].position.y - drill.balls[1].y)
         < Dist2(drill.players[1].position.x - drill.balls[1].x,
                 drill.players[1].position.y - drill.balls[1].y)
    /\ tracker.ball_holder = drill.players[2].id

(* ---------------------------------------------------------------------- *)
(* C5                                                                      *)
(* ---------------------------------------------------------------------- *)

\* C5: for CHAINED_ACTIONS_DEMO (A1 at (30,50), A2 at (70,50); Dribble A1 to
\* (35,70), Run A2 to (55,88), Pass A1 to A2, Shot A2) the Pass is drawn with
\* its start within the chain gap of (35,70) and not within the player
\* offset of (30,50), the Shot is drawn with its start within the chain gap
\* of (55,88) and not within the player offset of (70,50), and the ball
\* holder after the Pass is A2.
C5_ChainedActionsDemo ==
    drill = CHAINED_ACTIONS_DEMO =>
        /\ Len(calls) >= 3 =>
              /\ calls[3].drawn
              /\ Within(calls[3].start_x, calls[3].start_y, Position(35, 70), ACTION_GAP)
              /\ ~ Within(calls[3].start_x, calls[3].start_y, Position(30, 50), PLAYER_OFFSET)
        /\ Len(calls) >= 4 =>
              /\ calls[4].drawn
              /\ Within(calls[4].start_x, calls[4].start_y, Position(55, 88), ACTION_GAP)
              /\ ~ Within(calls[4].start_x, calls[4].start_y, Position(70, 50), PLAYER_OFFSET)
        /\ (pc = "actions" /\ i = 4) => tracker.ball_holder = "A2"

\* the demo has been rendered to its end, Pass and Shot drawn
C5_Witness ==
    /\ drill = CHAINED_ACTIONS_DEMO
    /\ pc = "done"
    /\ Len(calls) = 4
    /\ calls[3].type = "PASS" /\ calls[3].drawn
    /\ calls[4].type = "SHOT" /\ calls[4].drawn
    /\ tracker.ball_holder = "A2"

(* ---------------------------------------------------------------------- *)
(* C6                                                                      *)
(* ---------------------------------------------------------------------- *)

\* the point q lies in the computed viewport
InView(q) ==
    /\ view.x_min <= q.x /\ q.x <= view.x_max
    /\ view.y_min <= q.y /\ q.y <= view.y_max

\* the goal-centre target of a Shot: (50, attacking goal y)
ShotTarget == [x |-> 5000, y |-> IF drill.field.attacking_direction = "NORTH" THEN 10000 ELSE 0]

\* C6: the computed viewport contains every player, cone, ball and mannequin
\* position, every Run/Dribble to_position and the goal-centre target of
\* every Shot.
C6_ViewportContainsContent ==
    pc # "start" =>
        /\ \A k \in DOMAIN drill.players : InView(drill.players[k].position)
        /\ \A k \in DOMAIN drill.cones : InView(drill.cones[k])
        /\ \A k \in DOMAIN drill.balls : InView(drill.balls[k])
        /\ \A k \in DOMAIN drill.mannequins : InView(drill.mannequins[k])
        /\ \A k \in DOMAIN drill.actions :
              /\ drill.actions[k].type \in {"RUN", "DRIBBLE"} =>
                    InView(drill.actions[k].to_position)
              /\ drill.actions[k].type = "SHOT" => InView(ShotTarget)

\* the left edge of the viewport is set by the destination of a Run alone:
\* it lies one padding left of it, inside the field, and no recentring moved it
C6_Witness ==
    /\ pc = "done"
    /\ \E k \in DOMAIN drill.actions :
          /\ drill.actions[k].type = "RUN"
          /\ view.x_min = drill.actions[k].to_position.x - padding
          /\ view.x_min > 0
          /\ \A j \in DOMAIN drill.players :
                drill.players[j].position.x - padding > drill.actions[k].to_position.x

(* ---------------------------------------------------------------------- *)
(* C7                                                                      *)
(* ---------------------------------------------------------------------- *)

\* C7: for every valid drill, single-point documents anywhere on the field
\* included, the computed viewport is at least 30 units wide and 30 units
\* high.
C7_MinimumViewSize ==
    pc # "start" =>
        /\ view.x_max - view.x_min >= min_size
        /\ view.y_max - view.y_min >= min_size

(* ---------------------------------------------------------------------- *)
(* C8                                                                      *)
(* ---------------------------------------------------------------------- *)

\* the cones drawn for the cone gates: render() draws them first after the field
GateConeOps == {j \in DOMAIN ops : 2 <= j /\ j <= 1 + 2 * Len(drill.cone_gates)}

\* the point q lies on the 0-100 field
OnField(q) == 0 <= q.x /\ q.x <= 10000 /\ 0 <= q.y /\ q.y <= 10000

\* C8: each of the two cones that render() draws for a cone gate (centre
\* +/- width/2 along x for a HORIZONTAL gate, along y for a VERTICAL one)
\* lies inside the computed viewport when it lies on the field.
C8_GateConesInView ==
    pc \notin {"start", "entities"} =>
        \A j \in GateConeOps :
            (ops[j].kind = "cone" /\ OnField(ops[j])) => InView(ops[j])

(* ---------------------------------------------------------------------- *)
(* C9                                                                      *)
(* ---------------------------------------------------------------------- *)

\* a document rendered to the end that holds one player and nothing else
SinglePlayerOnly ==
    /\ pc = "done"
    /\ Len(drill.players) = 1
    /\ drill.cones = << >> /\ drill.cone_gates = << >>
    /\ drill.balls = << >> /\ drill.mannequins = << >>
    /\ drill.actions = << >>

NoArrowDrawn ==
    /\ calls = << >>
    /\ \A j \in DOMAIN ops : ops[j].kind \notin {"line", "arrowhead"}

ClampedAxis(c) ==
    LET lo == IF c - 800 < 0 THEN 0 ELSE c - 800
        hi == IF c + 800 > 10000 THEN 10000 ELSE c + 800
        mid == (lo + hi) \div 2
    IN  [lo |-> IF mid - 1500 < 0 THEN 0 ELSE mid - 1500,
         hi |-> IF mid + 1500 > 10000 THEN 10000 ELSE mid + 1500]

C10_ZeroLengthGuard ==
    /\ \A k \in DOMAIN calls : ZeroLength(calls[k]) => ~ calls[k].drawn
    /\ Cardinality({j \in DOMAIN ops : ops[j].kind = "line"})
         = Cardinality({k \in DOMAIN calls : calls[k].drawn})
    /\ Cardinality({j \in DOMAIN ops : ops[j].kind = "arrowhead"})
         = Cardinality({k \in DOMAIN calls : calls[k].drawn})
    /\ ~ raised
    /\ pc = "actions" => Len(calls) = i - 1
    /\ pc = "done" => Len(calls) = Len(drill.actions)

\* render() has ended after a zero-length action that drew nothing and was
\* followed by an action that drew its arrow
C10_Witness ==
    /\ pc = "done"
    /\ ~ raised
    /\ \E k \in DOMAIN calls :
          /\ ZeroLength(calls[k])
          /\ ~ calls[k].drawn
          /\ k < Len(calls)
          /\ calls[k + 1].drawn

(* ---------------------------------------------------------------------- *)
(* C11                                                                     *)
(* ---------------------------------------------------------------------- *)

\* the trim at an endpoint anchored to player pid when action k is drawn
TrimFor(pid, k) == IF MovesBefore(pid, k) = {} THEN PLAYER_OFFSET ELSE ACTION_GAP

\* the point (x, y) lies r from the point q, up to fixed-point rounding
AtDistance(x, y, q, r) == Within(x, y, q, r) /\ ~ Within(x, y, q, r - 5)

\* C11: for a Pass with a rendered segment the start trim is PLAYER_OFFSET
\* if and only if the passer has not moved before it and ACTION_GAP
\* otherwise, and the end trim is PLAYER_OFFSET if and only if the receiver
\* has not moved before it and ACTION_GAP otherwise; for a Run or Dribble the
\* start trim follows the same rule for the actor and the end trim at
\* to_position is always ACTION_GAP.  Each trimmed endpoint lies that far
\* from its raw endpoint.
C11_TrimByMovedFlag ==
    \A k \in DOMAIN calls :
        LET a == drill.actions[k]
            c == calls[k]
        IN  (a.type \in {"PASS", "RUN", "DRIBBLE"} /\ ~ ZeroLength(c)) =>
               /\ c.start_offset = TrimFor(Actor(a), k)
               /\ c.start_offset = PLAYER_OFFSET <=> MovesBefore(Actor(a), k) = {}
               /\ AtDistance(c.start_x, c.start_y, [x |-> c.x1, y |-> c.y1], c.start_offset)
               /\ a.type = "PASS" =>
                     /\ c.end_offset = TrimFor(a.to_player, k)
                     /\ c.end_offset = PLAYER_OFFSET <=> MovesBefore(a.to_player, k) = {}
               /\ a.type \in {"RUN", "DRIBBLE"} => c.end_offset = ACTION_GAP
               /\ AtDistance(c.end_x, c.end_y, [x |-> c.x2, y |-> c.y2], c.end_offset)

\* a Pass has been drawn from a passer who had not moved to a receiver who
\* had, after a Run was drawn from a player who had not moved
C11_Witness ==
    \E k \in DOMAIN calls :
        /\ drill.actions[k].type = "PASS"
        /\ MovesBefore(drill.actions[k].from_player, k) = {}
        /\ MovesBefore(drill.actions[k].to_player, k) # {}
        /\ calls[k].drawn
        /\ calls[k].start_offset = PLAYER_OFFSET
        /\ calls[k].end_offset = ACTION_GAP
        /\ \E j \in 1..(k - 1) :
              /\ drill.actions[j].type = "RUN"
              /\ calls[j].start_offset = PLAYER_OFFSET
              /\ calls[j].end_offset = ACTION_GAP

(* ---------------------------------------------------------------------- *)
(* C12                                                                     *)
(* ---------------------------------------------------------------------- *)

Abs(n) == IF n < 0 THEN -n ELSE n

\* the point (x, y) lies on the straight line through the raw start and the
\* raw end of call c, up to fixed-point rounding
OnRawLine(c, x, y) ==
    Abs((x - c.x1) * (c.y2 - c.y1) - (y - c.y1) * (c.x2 - c.x1))
        <= Abs(c.x2 - c.x1) + Abs(c.y2 - c.y1)

\* the start of call c has been moved along the raw line by the player
\* offset or the chain gap
StartShortened(c) ==
    /\ c.start_offset \in {PLAYER_OFFSET, ACTION_GAP}
    /\ AtDistance(c.start_x, c.start_y, [x |-> c.x1, y |-> c.y1], c.start_offset)
    /\ OnRawLine(c, c.start_x, c.start_y)

\* the end of call c has been moved along the raw line by the player offset
\* or the chain gap
EndShortened(c) ==
    /\ c.end_offset \in {PLAYER_OFFSET, ACTION_GAP}
    /\ AtDistance(c.end_x, c.end_y, [x |-> c.x2, y |-> c.y2], c.end_offset)
    /\ OnRawLine(c, c.end_x, c.end_y)

\* C12 as stated: every rendered action segment, of every kind (Pass, Run,
\* Dribble and Shot), is shortened at both its start and its end along the
\* straight line between its raw start and raw end, each end by the player
\* offset or the chain gap.
C12_BothEndsShortened ==
    \A k \in DOMAIN calls :
        calls[k].drawn => StartShortened(calls[k]) /\ EndShortened(calls[k])

\* C12 amended: every rendered Pass, Run and Dribble segment is shortened at
\* both its start and its end along the straight line between its raw start
\* and raw end, each end by the player offset or the chain gap; a rendered
\* Shot segment is shortened in that way at its start only and ends, untrimmed,
\* at the goal centre (50, attacking goal y).
C12_ShotEndsAtGoal ==
    \A k \in DOMAIN calls :
        LET c == calls[k]
        IN  c.drawn =>
               /\ StartShortened(c)
               /\ c.type \in {"PASS", "RUN", "DRIBBLE"} => EndShortened(c)
               /\ c.type = "SHOT" =>
                     /\ c.end_offset = 0
                     /\ c.end_x = c.x2 /\ c.end_y = c.y2
                     /\ [x |-> c.end_x, y |-> c.end_y] = ShotTarget

\* a Shot has been drawn from the place its player ran to, trimmed by the
\* chain gap at the start and ending on the goal centre, after a Pass trimmed
\* at both ends
C12_Witness ==
    \E k \in DOMAIN calls :
        /\ calls[k].type = "SHOT"
        /\ calls[k].drawn
        /\ calls[k].start_offset = ACTION_GAP
        /\ calls[k].start_x # calls[k].x1
        /\ calls[k].end_x = 5000 /\ calls[k].end_y = 10000
        /\ \E j \in 1..(k - 1) :
              /\ calls[j].type = "PASS"
              /\ calls[j].drawn
              /\ EndShortened(calls[j])

(* ---------------------------------------------------------------------- *)
(* C13                                                                     *)
(* ---------------------------------------------------------------------- *)

\* C13: applying Pass(X, Y) sets the ball holder to Y, whether or not X was
\* the holder before, and changes no player's live position and no player's
\* moved flag.
C13_PassFrame ==
    [][(RenderPass /\ ~ raised') =>
          /\ tracker'.ball_holder = drill.actions[i].to_player
          /\ tracker'.player_positions = tracker.player_positions
          /\ tracker'.player_has_moved = tracker.player_has_moved]_vars

\* a Pass from a player who was not the holder (the Pass before it had given
\* the ball to somebody else) has just been applied: its receiver holds the
\* ball and nobody has moved
C13_Witness ==
    /\ pc = "actions"
    /\ i >= 3
    /\ drill.actions[i - 1].type = "PASS"
    /\ drill.actions[i - 2].type = "PASS"
    /\ drill.actions[i - 2].to_player # drill.actions[i - 1].from_player
    /\ drill.actions[i - 2].to_player # drill.actions[i - 1].to_player
    /\ tracker.ball_holder = drill.actions[i - 1].to_player
    /\ \A pid \in PlayerIds :
          /\ ~ tracker.player_has_moved[pid]
          /\ tracker.player_positions[pid] = SpawnOf(pid)

(* ---------------------------------------------------------------------- *)
(* C14                                                                     *)
(* ---------------------------------------------------------------------- *)

\* C14: applying a Run or Dribble by player P to position Q sets P's live
\* position to Q and P's moved flag to true; it leaves every other player's
\* live position and moved flag, the identity of the ball holder and the
\* document's Player records unchanged; if P is the current holder the ball
\* position becomes Q.
C14_MoveFrame ==
    [][(RenderRun \/ RenderDribble) =>
          LET P == drill.actions[i].player
              Q == drill.actions[i].to_position
          IN  /\ tracker'.player_positions[P] = Q
              /\ tracker'.player_has_moved[P] = TRUE
              /\ DOMAIN tracker'.player_positions = DOMAIN tracker.player_positions
              /\ DOMAIN tracker'.player_has_moved = DOMAIN tracker.player_has_moved
              /\ \A pid \in DOMAIN tracker.player_positions \ {P} :
                    /\ tracker'.player_positions[pid] = tracker.player_positions[pid]
                    /\ tracker'.player_has_moved[pid] = tracker.player_has_moved[pid]
              /\ tracker'.ball_holder = tracker.ball_holder
              /\ drill'.players = drill.players
              /\ tracker.ball_holder = P => tracker'.ball_position = Q]_vars

\* a Dribble by the holder followed by a Run of the other player have just
\* been applied: the ball lies where the holder dribbled to, the runner
\* stands where the Run ended, and the holder is still the holder
C14_Witness ==
    /\ pc = "actions"
    /\ i >= 3
    /\ drill.actions[i - 2].type = "DRIBBLE"
    /\ drill.actions[i - 1].type = "RUN"
    /\ drill.actions[i - 2].player # drill.actions[i - 1].player
    /\ drill.actions[i - 2].to_position # drill.actions[i - 1].to_position
    /\ tracker.ball_holder = drill.actions[i - 2].player
    /\ tracker.ball_position = drill.actions[i - 2].to_position
    /\ tracker.player_positions[drill.actions[i - 2].player] = drill.actions[i - 2].to_position
    /\ tracker.player_positions[drill.actions[i - 1].player] = drill.actions[i - 1].to_position
    /\ tracker.player_has_moved[drill.actions[i - 1].player]
    /\ SpawnOf(drill.actions[i - 1].player) # drill.actions[i - 1].to_position

(* ---------------------------------------------------------------------- *)
(* C15                                                                     *)
(* ---------------------------------------------------------------------- *)

\* C15: after a Shot action is applied the tracker's ball holder is cleared
\* (no holder), so that the actions following the shot never observe the
\* shooter as a stale holder.
C15_ShotClearsHolder ==
    (pc \in {"actions", "done"} /\ i >= 2 /\ drill.actions[i - 1].type = "SHOT") =>
        tracker.ball_holder = None

(* ---------------------------------------------------------------------- *)
(* C16                                                                     *)
(* ---------------------------------------------------------------------- *)

\* the player ids action a refers to
Referenced(a) == IF a.type = "PASS" THEN {a.from_player, a.to_player} ELSE {a.player}

\* the keys of the tracker's position map when action k is read: the
\* document's players and the players of the Runs and Dribbles before k
MappedBefore(k) ==
    PlayerIds \cup {drill.actions[j].player :
                      j \in {m \in 1..(k - 1) : drill.actions[m].type \in {"RUN", "DRIBBLE"}}}

\* C16: if an action references a player id that is not in the tracker's
\* position map, rendering fails with an error instead of drawing the arrow
\* from or to a default location such as (0,0): no draw call is ever made
\* for such an action, and render() does not return normally after one.
C16_UnknownIdFails ==
    /\ \A k \in DOMAIN calls : Referenced(drill.actions[k]) \subseteq MappedBefore(k)
    /\ (pc = "done" /\ ~ raised) =>
          \A k \in DOMAIN drill.actions : Referenced(drill.actions[k]) \subseteq MappedBefore(k)

(* ---------------------------------------------------------------------- *)
(* C17                                                                     *)
(* ---------------------------------------------------------------------- *)

\* the player ids, case-normalised, that the actions of d name and that are
\* not ids of the players of d
UnresolvedPlayers(d) ==
    UNION {{upper(r) : r \in Referenced(d.actions[k])} : k \in DOMAIN d.actions}
        \ {d.players[k].id : k \in DOMAIN d.players}

\* the gate ids, case-normalised, that the Dribbles of d name and that are
\* not ids of the cone gates of d
UnresolvedGates(d) ==
    {upper(d.actions[k].through_gate) :
        k \in {j \in DOMAIN d.actions : /\ d.actions[j].type = "DRIBBLE"
                                         /\ d.actions[j].through_gate # None}}
        \ {d.cone_gates[k].id : k \in DOMAIN d.cone_gates}

\* C17: Drill validation rejects every document in which a Pass's from_player
\* or to_player, a Run's, Dribble's or Shot's player, or a Dribble's
\* through_gate names an id (case-normalised) that is not among the
\* document's players (resp. cone gates); hence every Drill that reaches
\* render has all its action references resolved.
C17_ReferencesResolved ==
    /\ [][(ModelValidate /\ (UnresolvedPlayers(drill) # {} \/ UnresolvedGates(drill) # {}))
             => pc' = "rejected"]_vars
    /\ [](pc \notin {"validate", "rejected"} =>
             UnresolvedPlayers(drill) = {} /\ UnresolvedGates(drill) = {})

\* a document whose player references all resolve but whose Dribble names a
\* gate that the document does not hold has been rejected
C17_Witness ==
    /\ pc = "rejected"
    /\ fields_valid(drill)
    /\ drill.cone_gates # << >>
    /\ UnresolvedPlayers(drill) = {}
    /\ UnresolvedGates(drill) = {"G2"}

(* ---------------------------------------------------------------------- *)
(* C18                                                                     *)
(* ---------------------------------------------------------------------- *)

\* C18: every Drill accepted by validation has pairwise distinct player ids,
\* so each id referenced by an action denotes exactly one player (one
\* starting position) for both the tracker and the ball-marker placement.
C18_DistinctPlayerIds ==
    pc \notin {"validate", "rejected"} =>
        /\ \A j \in DOMAIN drill.players : \A k \in DOMAIN drill.players :
              drill.players[j].id = drill.players[k].id => j = k
        /\ pc = "balls" =>
              \A pid \in PlayerIds : tracker.player_positions[pid] = start_position(drill, pid)

(* ---------------------------------------------------------------------- *)
(* C19                                                                     *)
(* ---------------------------------------------------------------------- *)

\* C19: if field.goals is 1 or 2 and the content bounding box comes within
\* 30 units of the attacking goal line (content_y_max > 70 when attacking
\* NORTH, content_y_min < 30 when attacking SOUTH), the final viewport edge
\* on that side is exactly the goal line (y_max = 100, resp. y_min = 0).
C19_AttackingGoalLine ==
    (pc # "start" /\ drill.field.goals \in {1, 2}) =>
        /\ (drill.field.attacking_direction = "NORTH" /\ view.content_y_max > 7000) =>
              view.y_max = 10000
        /\ (drill.field.attacking_direction = "SOUTH" /\ view.content_y_min < 3000) =>
              view.y_min = 0

\* a one-goal field attacking SOUTH whose lowest content lies between 8 and
\* 30 units from the goal line, so that padding alone would leave the lower
\* edge above it: the lower edge is the goal line
C19_Witness ==
    /\ pc = "done"
    /\ drill.field = FieldConfig("SOUTH", 1)
    /\ view.content_y_min < 3000
    /\ view.content_y_min - padding > 0
    /\ view.y_min = 0
    /\ view.y_max < 10000

(* ---------------------------------------------------------------------- *)
(* C20                                                                     *)
(* ---------------------------------------------------------------------- *)

\* the document has a GOALKEEPER whose y satisfies the test
GoalkeeperAbove(y) ==
    \E k \in DOMAIN drill.players :
        drill.players[k].role = "GOALKEEPER" /\ drill.players[k].position.y > y

GoalkeeperBelow(y) ==
    \E k \in DOMAIN drill.players :
        drill.players[k].role = "GOALKEEPER" /\ drill.players[k].position.y < y

\* C20: with field.goals = 2 the extension rule applies independently to
\* both ends (content_y_min < 30 forces y_min = 0 and content_y_max > 70
\* forces y_max = 100, whatever the attacking direction), and in addition any
\* GOALKEEPER-role player with y > 90 forces y_max = 100 and any with y < 10
\* forces y_min = 0.
C20_BothGoalLines ==
    (pc # "start" /\ drill.field.goals = 2) =>
        /\ view.content_y_min < 3000 => view.y_min = 0
        /\ view.content_y_max > 7000 => view.y_max = 10000
        /\ GoalkeeperAbove(9000) => view.y_max = 10000
        /\ GoalkeeperBelow(1000) => view.y_min = 0

\* a two-goal field attacking NORTH with a goalkeeper above y = 90 and other
\* content between 8 and 30 units from the lower goal line: the viewport runs
\* from goal line to goal line
C20_Witness ==
    /\ pc = "done"
    /\ drill.field = FieldConfig("NORTH", 2)
    /\ GoalkeeperAbove(9000)
    /\ view.content_y_min < 3000
    /\ view.content_y_min - padding > 0
    /\ view.y_min = 0
    /\ view.y_max = 10000

(* ---------------------------------------------------------------------- *)
(* C21                                                                     *)
(* ---------------------------------------------------------------------- *)

Stage(kind) ==
    CASE kind = "field" -> 0
      [] kind \in {"cone", "mannequin"} -> 1
      [] kind = "player" -> 2
      [] kind = "ball" -> 3
      [] kind \in {"line", "arrowhead"} -> 4

IsArrowOp(o) == o.kind \in {"line", "arrowhead"}

IsDrawn(c) == c.drawn

\* C22: the draw operations of a figure are emitted in this order: the field
\* (surface and markings), then cone-gate cones, standalone cones and
\* mannequins, then all player markers, then the ball marker(s), then the
\* action arrows in action-list order (line, then arrowhead, of each drawn
\* action in turn); no action arrow is emitted before the ball marker and no
\* player marker after it.
C22_DrawOrder ==
    /\ ops # << >> => ops[1].kind = "field"
    /\ \A j \in DOMAIN ops : \A k \in DOMAIN ops :
          j < k => Stage(ops[j].kind) <= Stage(ops[k].kind)
    /\ LET arrows == SelectSeq(ops, IsArrowOp)
           drawn == SelectSeq(calls, IsDrawn)
       IN  /\ Len(arrows) = 2 * Len(drawn)
           /\ \A n \in DOMAIN drawn :
                 /\ arrows[2 * n - 1] = Op("line", drawn[n].start_x, drawn[n].start_y)
                 /\ arrows[2 * n] = Op("arrowhead", drawn[n].end_x, drawn[n].end_y)
    /\ pc \in {"actions", "done", "png_actions", "png_done"} =>
          /\ Cardinality({j \in DOMAIN ops : ops[j].kind = "player"}) = Len(drill.players)
          /\ ~ raised =>
                Cardinality({j \in DOMAIN ops : ops[j].kind = "ball"}) = Len(drill.balls)

\* render() has ended with every stage on the figure: equipment, players, a
\* ball and the arrows of two actions
C22_Witness ==
    /\ pc = "done"
    /\ \E j \in DOMAIN ops : ops[j].kind = "cone"
    /\ \E j \in DOMAIN ops : ops[j].kind = "mannequin"
    /\ \E j \in DOMAIN ops : ops[j].kind = "ball"
    /\ Cardinality({j \in DOMAIN ops : ops[j].kind = "player"}) = 2
    /\ Cardinality({j \in DOMAIN ops : ops[j].kind = "arrowhead"}) = 2
    /\ ops[Len(ops)].kind = "arrowhead"

(* ---------------------------------------------------------------------- *)
(* C23                                                                     *)
(* ---------------------------------------------------------------------- *)

\* whether action a is a Pass, Dribble or Shot of player pid
BallActionOf(a, pid) ==
    \/ a.type = "PASS" /\ a.from_player = pid
    \/ a.type \in {"DRIBBLE", "SHOT"} /\ a.player = pid

\* the indices of the Pass, Dribble and Shot actions of player pid
BallActionsOf(pid) == {k \in DOMAIN drill.actions : BallActionOf(drill.actions[k], pid)}

\* where the first Pass, Dribble or Shot of player pid points to
FirstBallTarget(pid) ==
    LET a == drill.actions[Min(BallActionsOf(pid))]
    IN  IF a.type = "PASS" THEN SpawnOf(a.to_player)
        ELSE IF a.type = "DRIBBLE" THEN a.to_position
        ELSE ShotTarget

\* whether point (x, y) is where a ball held by player pid belongs: at the
\* player when they have no Pass, Dribble or Shot, else BALL_OFFSET away
\* from the player on the line towards the target of the first of these
BallAtHolder(pid, x, y) ==
    LET at == SpawnOf(pid)
    IN  IF BallActionsOf(pid) = {} THEN x = at.x /\ y = at.y
        ELSE LET to == FirstBallTarget(pid)
             IN  \/ to = at
                 \/ /\ AtDistance(x, y, at, BALL_OFFSET)
                    /\ Abs((x - at.x) * (to.y - at.y) - (y - at.y) * (to.x - at.x))
                           <= 2 * Isqrt(Dist2(to.x - at.x, to.y - at.y)) + 2
                    /\ (x - at.x) * (to.x - at.x) + (y - at.y) * (to.y - at.y) > 0

\* the ball markers emitted so far by the running render or render_to_png
BallOps == SelectSeq(ops, LAMBDA o : o.kind = "ball")

\* C23: whenever the tracker has an initial holder, the ball marker is drawn
\* at the holder's position displaced by BALL_OFFSET along the direction of
\* the holder's first Pass, Dribble or Shot (undisplaced without such an
\* action), by render and by render_to_png alike, also when the document's
\* static ball position differs from the holder's position.
C23_BallAtHolder ==
    (initial_holder(drill) # None /\ BallOps # << >>) =>
        BallAtHolder(initial_holder(drill), BallOps[1].x, BallOps[1].y)

(* ---------------------------------------------------------------------- *)
(* C24                                                                     *)
(* ---------------------------------------------------------------------- *)

\* PositionTracker.get_ball_position
get_ball_position(t) ==
    IF t.ball_holder # None THEN t.player_positions[t.ball_holder]
    ELSE IF t.ball_position # NoPosition THEN t.ball_position
    ELSE Position(50, 50)

\* whether the tracker has been constructed
TrackerLive == tracker # NoTracker

\* C24: after construction and after every tracker operation, whenever a ball
\* holder is set the stored ball_position and the value of get_ball_position
\* both equal the holder's current live position; with no holder and a ball
\* in the document they equal the first ball's static position.
C24_BallFollowsHolder ==
    TrackerLive =>
        /\ tracker.ball_holder # None =>
              /\ tracker.ball_holder \in DOMAIN tracker.player_positions
              /\ tracker.ball_position = tracker.player_positions[tracker.ball_holder]
              /\ get_ball_position(tracker) = tracker.player_positions[tracker.ball_holder]
        /\ (tracker.ball_holder = None /\ drill.balls # << >>) =>
              /\ tracker.ball_position = drill.balls[1]
              /\ get_ball_position(tracker) = drill.balls[1]

\* a holder who received the ball by a Pass has moved afterwards, away from
\* their starting position, and the ball is with them
C24_Witness ==
    /\ pc = "done" /\ ~ raised
    /\ tracker.ball_holder # None
    /\ tracker.ball_holder # initial_holder(drill)
    /\ tracker.player_has_moved[tracker.ball_holder]
    /\ drill.actions[i - 1].type \in {"RUN", "DRIBBLE"}
    /\ drill.actions[i - 1].player = tracker.ball_holder
    /\ tracker.ball_position = drill.actions[i - 1].to_position
    /\ tracker.ball_position # SpawnOf(tracker.ball_holder)

(* ---------------------------------------------------------------------- *)
(* C25                                                                     *)
(* ---------------------------------------------------------------------- *)

\* C25: at construction every player's live position is their starting
\* position and every moved flag is false; a player's moved flag is true
\* exactly from the first Run or Dribble by that player on and never returns
\* to false; while the flag is false the player's live position is their
\* starting position.
C25_MovedFlag ==
    TrackerLive =>
        /\ DOMAIN tracker.player_has_moved = PlayerIds
        /\ DOMAIN tracker.player_positions = PlayerIds
        /\ \A pid \in PlayerIds :
              /\ tracker.player_has_moved[pid] \in BOOLEAN
              /\ tracker.player_has_moved[pid] <=> MovesBefore(pid, i) # {}
              /\ ~ tracker.player_has_moved[pid] =>
                    tracker.player_positions[pid] = SpawnOf(pid)

\* one player has run or dribbled and carries the flag, at a place other
\* than their starting position, while another player, who only received a
\* Pass since, still has no flag
C25_Witness ==
    /\ pc = "done"
    /\ \E p, q \in PlayerIds :
          /\ tracker.player_has_moved[p]
          /\ tracker.player_positions[p] # SpawnOf(p)
          /\ ~ tracker.player_has_moved[q]
          /\ \E k \in DOMAIN drill.actions :
                /\ drill.actions[k].type = "PASS" /\ drill.actions[k].to_player = q
                /\ \E j \in 1..(k - 1) : drill.actions[j].type \in {"RUN", "DRIBBLE"}
                                          /\ drill.actions[j].player = p

(* ---------------------------------------------------------------------- *)
(* C26                                                                     *)
(* ---------------------------------------------------------------------- *)

\* C26: when the drill has several balls and the tracker has a holder, only
\* the first ball is drawn at the holder (with the directional nudge); every
\* other ball is drawn at its own static position, so two balls at distinct
\* positions are never drawn on one point.
C26_OtherBallsStatic ==
    (pc \in {"actions", "done"} /\ initial_holder(drill) # None
                                /\ Len(BallOps) = Len(drill.balls)) =>
        /\ \A k \in 2..Len(drill.balls) :
              BallOps[k].x = drill.balls[k].x /\ BallOps[k].y = drill.balls[k].y
        /\ \A j, k \in DOMAIN drill.balls :
              (j < k /\ drill.balls[j] # drill.balls[k]) =>
                  ~ (BallOps[j].x = BallOps[k].x /\ BallOps[j].y = BallOps[k].y)

(* ---------------------------------------------------------------------- *)
(* C27                                                                     *)
(* ---------------------------------------------------------------------- *)

\* whether LLM answer r is JSON that Drill validation accepts
Accepted(r) ==
    /\ r.kind = "data"
    /\ Len(r.data[1].players) >= 1
    /\ \A k \in DOMAIN r.data[1].players : id_pattern(r.data[1].players[k].id)
    /\ UnresolvedPlayers(validate_fields(r.data[1])) = {}

\* the answers the LLM has given so far, all but the last n
EarlierResponses(n) ==
    {generation.responses[k] : k \in 1..(Len(generation.responses) - n)}

\* what C27 says of a single state of generate_from_request
RetriesBounded ==
    /\ generation.llm_calls = Len(generation.responses)
    /\ generation.llm_calls <= generation.max_retries
    /\ pc = "generate" =>
          /\ \A r \in EarlierResponses(0) : ~ Accepted(r)
          /\ ~ raised
    /\ pc = "generated" =>
          /\ generation.responses # << >>
          /\ Accepted(generation.responses[Len(generation.responses)])
          /\ drill = validate_fields(generation.responses[Len(generation.responses)].data[1])
          /\ \A r \in EarlierResponses(1) : ~ Accepted(r)
          /\ ~ raised
    /\ pc = "generate_failed" =>
          /\ raised
          /\ generation.llm_calls = generation.max_retries
          /\ \A r \in EarlierResponses(0) : ~ Accepted(r)

BallDistance(k) ==
    Dist2(drill.players[k].position.x - drill.balls[1].x,
          drill.players[k].position.y - drill.balls[1].y)

\* the earliest-listed of the players nearest the first ball
NearestListed ==
    Min({k \in DOMAIN drill.players :
            \A j \in DOMAIN drill.players : BallDistance(k) <= BallDistance(j)})

\* C28: when the first action is a Run the initial ball holder is not taken
\* from it: with a ball in the document the holder is the player nearest the
\* first ball's static position, the earliest-listed one when distances tie,
\* and without a ball there is no holder.
C28_RunFirstHolder ==
    (pc = "balls" /\ drill.actions # << >> /\ drill.actions[1].type = "RUN") =>
        IF drill.balls # << >>
        THEN tracker.ball_holder = drill.players[NearestListed].id
        ELSE tracker.ball_holder = None

\* the second player opens with a Run, the ball lies at the same distance
\* from both players, and the first player holds it
C28_Witness ==
    /\ pc = "balls"
    /\ Len(drill.players) = 2
    /\ drill.actions # << >>
    /\ drill.actions[1].type = "RUN"
    /\ drill.actions[1].player = drill.players[2].id
    /\ drill.balls # << >>
    /\ BallDistance(1) = BallDistance(2)
    /\ drill.players[1].position # drill.players[2].position
    /\ tracker.ball_holder = drill.players[1].id
    /\ tracker.ball_holder # drill.players[2].id

(* ---------------------------------------------------------------------- *)
(* C29                                                                     *)
(* ---------------------------------------------------------------------- *)

\* C29: for every valid drill and every prefix of its action list, the ball
\* holder of the renderer's PositionTracker equals the ball holder of the
\* validator's BallTracker after that prefix: the same initial holder, and
\* the same holder after each Pass, Run, Dribble and Shot.
C29_SameHolder ==
    (pc \in {"balls", "actions", "done"} /\ ~ raised) =>
        tracker.ball_holder = validate_actions(drill, i - 1)

(* ---------------------------------------------------------------------- *)
(* C30                                                                     *)
(* ---------------------------------------------------------------------- *)

\* whether the trimmed segment of call c runs the way of its raw segment
PointsForward(c) ==
    (c.end_x - c.start_x) * (c.x2 - c.x1) + (c.end_y - c.start_y) * (c.y2 - c.y1) > 0

\* whether the raw segment of call c is longer than its two trims together
TrimsFit(c) ==
    Dist2(c.x2 - c.x1, c.y2 - c.y1)
        > (c.start_offset + c.end_offset) * (c.start_offset + c.end_offset)

\* C30: for every action whose raw start and raw end are distinct, the
\* trimmed start lies strictly before the trimmed end along the raw direction
\* (the raw length exceeds start trim plus end trim) and the straight part
\* before the arrowhead, of length dist - ARROW_HEAD_LENGTH, is not negative:
\* no arrow points backwards.
C30_NoBackwardArrow ==
    \A k \in DOMAIN calls :
        ~ ZeroLength(calls[k]) =>
            /\ TrimsFit(calls[k])
            /\ PointsForward(calls[k])
            /\ calls[k].dist - ARROW_HEAD_LENGTH >= 0

====
